---- MODULE Spec2Model ----
(***************************************************************************)
(* Meter-reading import core: UniversalParser.parse_file, the strict       *)
(* (D0010StandardParser) and fallback (FallbackParser) record grammars,    *)
(* the generic extractors, and the store (FlowFile, Meter,                 *)
(* RegisterReading) with its uniqueness constraints and transactions.      *)
(*                                                                         *)
(* A text line is the sequence of its '|'-separated fields, a delimited    *)
(* row is the dict csv.DictReader yields.  Python index i of `fields` is   *)
(* index i+1 of the sequence.  The store is three sets of rows; a row      *)
(* carries the transaction that wrote it (txn = 0: committed), which is    *)
(* how @transaction.atomic and READ COMMITTED visibility are modelled.     *)
(***************************************************************************)
EXTENDS Integers, Sequences, FiniteSets, TLC

VARIABLES
    flowFiles,   \* FlowFile rows
    meters,      \* Meter rows
    readings,    \* RegisterReading rows
    nextPk,      \* next primary key per table (never reused, not rolled back)
    clock,       \* datetime.now(), advanced by each reading stamped with it
    calls,       \* parse_file calls made so far
    proc,        \* per caller: its UniversalParser instance and its position
    batch        \* the run of the import_d0010 command, if one was started

vars == <<flowFiles, meters, readings, nextPk, clock, calls, proc, batch>>

-----------------------------------------------------------------------------
(* Bounds *)

\* parse_file calls in one behaviour
MaxCalls == 3

\* callers that may be inside parse_file at the same time
Procs == {1, 2}

-----------------------------------------------------------------------------
(* Python values *)

None == "None"

\* truthiness of a str-or-None value: `if not x`
Falsy(x) == x = None \/ x = ""

\* dict.get(key): the value, or None
DictGet(row, key) == IF key \in DOMAIN row THEN row[key] ELSE None

\* a or b or c, on str-or-None values
Or3(a, b, c) == IF ~Falsy(a) THEN a ELSE IF ~Falsy(b) THEN b ELSE c

\* fields[i] (Python index) of a split line
Fld(fields, i) == fields[i + 1]

\* float(s): the literals of the corpus, in thousandths (DecimalField,
\* decimal_places=3); any other string raises ValueError
FloatLit ==
    ("56311.0" :> 56311000) @@ ("56400.0" :> 56400000) @@
    ("12345.67" :> 12345670) @@ ("67890.12" :> 67890120) @@
    ("100.5" :> 100500) @@ ("0.000" :> 0)

IsFloat(s) == s \in DOMAIN FloatLit

\* datetime.strptime(s, '%Y%m%d%H%M%S'): the timestamps of the corpus, as
\* points of an integer time line; any other string raises ValueError
StampLit ==
    ("20160221000000" :> 21) @@ ("20160222000000" :> 22) @@
    ("20160223000000" :> 23) @@ ("20160302000000" :> 31) @@
    ("20160302153151" :> 32)

IsStamp(s) == s \in DOMAIN StampLit

\* the generic date formats, tried in order: '%Y-%m-%d', '%Y%m%d',
\* '%d/%m/%Y', '%m/%d/%Y'; the first that parses gives the timestamp
GenericDateLit ==
    << ("2023-01-01" :> 101) @@ ("2023-01-02" :> 102),
       ("20230101" :> 101) @@ ("20230102" :> 102),
       ("01/02/2023" :> 132) @@ ("02/01/2023" :> 102),
       ("01/02/2023" :> 102) @@ ("12/31/2022" :> 100) >>

\* make_aware(datetime.now()) at clock value c: later than every file date
Now(c) == 1000 + c

ZeroStats == [meters_created |-> 0, readings_created |-> 0, duplicates_skipped |-> 0]

-----------------------------------------------------------------------------
(* The files the callers import.  A content is what the bytes decode to;   *)
(* bad_at = k > 0: decoding fails when the k-th line/row is read (after    *)
(* k-1 were yielded); json_ok: json.load accepts the text.                 *)

ZHD1 == <<"ZHD", "0000475656", "D0010002", "D", "UDMS", "20160302", "153151", "OPER">>
ZHD2 == <<"ZHD", "0000475657", "D0010002", "D", "UDMS", "20160302", "153152", "OPER">>
MPAN1 == <<"026", "1200023305967", "V", "">>
\* 028|RegisterID|TPR|MQ|Serial|ReadingType|PrevDate|PrevTime|CurrDate|CurrTime|CurrValue|MDReset
DET1 == <<"028", "S", "00001", "kWh", "F75A00802", "A",
          "20160221", "000000", "20160222", "000000", "56311.0", "N">>
DET2 == <<"028", "S", "00001", "kWh", "F75A00802", "C",
          "20160222", "000000", "20160222", "000000", "56311.0", "N">>
\* 029|Seq|Date|Time|Reading|Reason|Method|Received
RD1 == <<"029", "1", "20160223", "000000", "56400.0", "S", "A", "">>
ZTR1 == <<"ZTR", "4", "">>
BADREC == <<"INVALID", "malformed", "record", "here", "">>

ZHV1 == <<"ZHV", "0000475656", "D0010002", "D", "UDMS", "X", "MRCY",
          "20160302153151", "", "", "", "OPER", "">>
FB028 == <<"028", "F75A00802", "D", "">>
FB030 == <<"030", "S", "20160222000000", "56311.0", "", "", "T", "N", "">>
ZPT1 == <<"ZPT", "5", "">>

ROW1 == [mpan |-> "1200023305967", serial |-> "F75A00802",
         reading |-> "12345.67", date |-> "2023-01-01"]
ROW2 == [mpan |-> "1900001059816", serial |-> "S95105287",
         reading |-> "67890.12", date |-> "2023-01-02"]
\* the serial of ROW1 under another metering point, undated
ROW3 == [mpan |-> "1900001059816", serial |-> "F75A00802",
         reading |-> "100.5", date |-> ""]

\* the test samples of ParserTests: a header of 13 fields, a detail line
\* that starts with the serial, a short 029 line, the trailers' counts
ZHDT == <<"ZHD", "0000475656", "D0010002", "D", "UDMS", "X", "MRCY",
          "20160302153151", "", "", "", "OPER", "">>
T028 == <<"028", "F75A00802", "S", "kWh", "A", "20160222000000", "20160222000000",
          "20160222000000", "20160222000000", "56311.0", "N", "">>
T029 == <<"029", "S", "20160222000000", "56311.0", "N", "T", "">>
ZTR5 == <<"ZTR", "5", "">>
ZPT4 == <<"ZPT", "4", "">>
\* a second reading of the fallback meter, another value at the same time
FB030B == <<"030", "S", "20160222000000", "56400.0", "", "", "T", "N", "">>

\* a reading line whose value is no number,
\* a metering-point line with an id of 8 characters, a second metering
\* point, a detail line cut after its 6th field, a fallback meter line
\* without serial
\* a detail line whose previous and current readings are of one day
DET3 == <<"028", "S", "00001", "kWh", "F75A00802", "A",
          "20160302", "000000", "20160302", "153151", "56400.0", "N">>
\* strict lines cut short: a header of 3 fields, a point line of 2, a
\* trailer of 2
ZHDSHORT == <<"ZHD", "0000999999", "D0010002">>
MPANSHORT == <<"026", "1900001059816">>
ZTRSHORT == <<"ZTR", "4">>
RDNAN == <<"029", "2", "20160223", "000000", "N/A", "S", "A", "">>
MPANBAD == <<"026", "12000233", "V", "">>
MPAN2 == <<"026", "1900001059816", "V", "">>
DETSHORT == <<"028", "S", "00001", "kWh", "S95105287", "A", "">>
FBDETEMPTY == <<"028", "">>

\* rows under the header point,serial,reading,date
PROW1 == [point |-> "1200023305967", serial |-> "F75A00802",
          reading |-> "12345.67", date |-> "2023-01-01"]
PROW2 == [point |-> "1900001059816", serial |-> "S95105287",
          reading |-> "67890.12", date |-> "2023-01-02"]

\* a free-text line, as its splits on '|', tab, ',' and whitespace (a split
\* on a delimiter the line does not hold is the whole line)
PLAIN1 == [pipe  |-> <<"This is not a valid data file">>,
           tab   |-> <<"This is not a valid data file">>,
           comma |-> <<"This is not a valid data file">>,
           space |-> <<"This", "is", "not", "a", "valid", "data", "file">>]

\* generic items with a field missing, a header in another case, a date no
\* format parses
CNOSER == [mpan |-> "1900001059816", serial |-> "",
           reading |-> "67890.12", date |-> "2023-01-02"]
CNOVAL == [mpan |-> "1900001059816", serial |-> "S95105287",
           reading |-> "", date |-> "2023-01-02"]
JNOMPAN == [serial |-> "S95105287", reading |-> "67890.12", date |-> "2023-01-02"]
CROW1 == [Mpan |-> "1200023305967", serial |-> "F75A00802",
          reading |-> "12345.67", date |-> "2023-01-01"]
CROW2 == [Mpan |-> "1900001059816", serial |-> "S95105287",
          reading |-> "67890.12", date |-> "2023-01-02"]
ROWBADDATE == [mpan |-> "1200023305967", serial |-> "F75A00802",
               reading |-> "12345.67", date |-> "1 Jan 2023"]

\* <reading> elements: the attributes, the text of the child elements
XEL1 == [attr |-> <<>>,
         child |-> [mpan |-> "1200023305967", serial |-> "F75A00802",
                    value |-> "12345.67", date |-> "2023-01-01"]]
XEL2 == [attr |-> <<>>,
         child |-> [mpan |-> "1900001059816", value |-> "67890.12",
                    date |-> "2023-01-02"]]
XEL3 == [attr |-> [unit |-> "kWh"],
         child |-> [mpan |-> "1900001059816", serial |-> "S95105287",
                    value |-> "67890.12", date |-> "2023-01-02"]]

\* free-text lines: four pipe-separated fields; one pipe in the first of
\* three comma-separated fields; three fields separated by blanks
TXTPIPE == [pipe  |-> <<"1200023305967", "F75A00802", "12345.67", "2023-01-01">>,
            tab   |-> <<"1200023305967|F75A00802|12345.67|2023-01-01">>,
            comma |-> <<"1200023305967|F75A00802|12345.67|2023-01-01">>,
            space |-> <<"1200023305967|F75A00802|12345.67|2023-01-01">>]
TXTMIX == [pipe  |-> <<"A", "1900001059816,S95105287,67890.12">>,
           tab   |-> <<"A|1900001059816,S95105287,67890.12">>,
           comma |-> <<"A|1900001059816", "S95105287", "67890.12">>,
           space |-> <<"A|1900001059816,S95105287,67890.12">>]
TXTSPACE == [pipe  |-> <<"1900001059816 S95105287 100.5">>,
             tab   |-> <<"1900001059816 S95105287 100.5">>,
             comma |-> <<"1900001059816 S95105287 100.5">>,
             space |-> <<"1900001059816", "S95105287", "100.5">>]
\* the two lines of a delimited file of one row, read as free text
CSVHEAD == [pipe  |-> <<"mpan,serial,reading,date">>,
            tab   |-> <<"mpan,serial,reading,date">>,
            comma |-> <<"mpan", "serial", "reading", "date">>,
            space |-> <<"mpan,serial,reading,date">>]
CSVLINE1 == [pipe  |-> <<"1200023305967,F75A00802,12345.67,2023-01-01">>,
             tab   |-> <<"1200023305967,F75A00802,12345.67,2023-01-01">>,
             comma |-> <<"1200023305967", "F75A00802", "12345.67", "2023-01-01">>,
             space |-> <<"1200023305967,F75A00802,12345.67,2023-01-01">>]
\* the line 026|1200023305967|V| read as free text
MPANTXT == [pipe  |-> <<"026", "1200023305967", "V", "">>,
            tab   |-> <<"026|1200023305967|V|">>,
            comma |-> <<"026|1200023305967|V|">>,
            space |-> <<"026|1200023305967|V|">>]

\* sniff: the first non-empty line holds a comma, its first character, and
\* whether a blank line comes before it
NoSniff == [comma |-> FALSE, lead |-> "", blank |-> FALSE]

Content ==
    [ strict1  |-> [lines |-> <<ZHD1, MPAN1, DET1, ZTR1>>, rows |-> <<>>, text |-> <<>>,
                    bad_at |-> 0, json_ok |-> FALSE, sniff |-> NoSniff],
      strict2  |-> [lines |-> <<ZHD2, MPAN1, BADREC, DET2, RD1, ZTR1>>, rows |-> <<>>, text |-> <<>>,
                    bad_at |-> 0, json_ok |-> FALSE, sniff |-> NoSniff],
      fallback |-> [lines |-> <<ZHV1, MPAN1, FB028, BADREC, FB030, ZPT1>>, rows |-> <<>>, text |-> <<>>,
                    bad_at |-> 0, json_ok |-> FALSE, sniff |-> NoSniff],
      csv1     |-> [lines |-> <<>>, rows |-> <<ROW1, ROW2>>, text |-> <<>>,
                    bad_at |-> 0, json_ok |-> FALSE, sniff |-> [comma |-> TRUE, lead |-> "", blank |-> FALSE]],
      csv2     |-> [lines |-> <<>>, rows |-> <<ROW2, ROW3>>, text |-> <<>>,
                    bad_at |-> 0, json_ok |-> FALSE, sniff |-> [comma |-> TRUE, lead |-> "", blank |-> FALSE]],
      csvbad   |-> [lines |-> <<>>, rows |-> <<ROW3, ROW1>>, text |-> <<>>,
                    bad_at |-> 2, json_ok |-> FALSE, sniff |-> [comma |-> TRUE, lead |-> "", blank |-> FALSE]],
      jsonbad  |-> [lines |-> <<>>, rows |-> <<>>, text |-> <<>>,
                    bad_at |-> 0, json_ok |-> FALSE, sniff |-> [comma |-> FALSE, lead |-> "{", blank |-> FALSE]],
      \* a strict file whose bytes stop decoding when its 4th line is read
      strictbad |-> [lines |-> <<ZHD1, MPAN1, DET1, ZTR1>>, rows |-> <<>>, text |-> <<>>,
                     bad_at |-> 4, json_ok |-> FALSE, sniff |-> NoSniff],
      \* header, metering point, one detail line without distinct previous date, trailer
      strict0  |-> [lines |-> <<ZHD1, MPAN1, DET2, ZTR1>>, rows |-> <<>>, text |-> <<>>,
                    bad_at |-> 0, json_ok |-> FALSE, sniff |-> NoSniff],
      tstrict  |-> [lines |-> <<ZHDT, MPAN1, T028, T029, ZTR5>>, rows |-> <<>>, text |-> <<>>,
                    bad_at |-> 0, json_ok |-> FALSE, sniff |-> NoSniff],
      tfallback |-> [lines |-> <<ZHV1, MPAN1, FB028, FB030, ZPT4>>, rows |-> <<>>,
                     text |-> <<>>, bad_at |-> 0, json_ok |-> FALSE, sniff |-> NoSniff],
      fallback2 |-> [lines |-> <<ZHV1, MPAN1, FB028, FB030, FB030B, FB030, ZPT1>>,
                     rows |-> <<>>, text |-> <<>>,
                     bad_at |-> 0, json_ok |-> FALSE, sniff |-> NoSniff],
      csvpoint |-> [lines |-> <<>>, rows |-> <<PROW1, PROW2>>, text |-> <<>>,
                    bad_at |-> 0, json_ok |-> FALSE, sniff |-> [comma |-> TRUE, lead |-> "", blank |-> FALSE]],
      plain    |-> [lines |-> <<>>, rows |-> <<>>, text |-> <<PLAIN1>>,
                    bad_at |-> 0, json_ok |-> FALSE, sniff |-> NoSniff],
      \* strict: detail and reading lines before any metering point, then
      \* a point, a detail line, a malformed point line and two reading lines
      ctxA     |-> [lines |-> <<ZHD1, DET1, RD1, MPANBAD, MPAN1, DET2, MPANBAD, RD1, RDNAN, ZTR1>>,
                    rows |-> <<>>, text |-> <<>>,
                    bad_at |-> 0, json_ok |-> FALSE, sniff |-> NoSniff],
      \* strict: a reading line after a second metering point
      ctxB     |-> [lines |-> <<ZHD1, MPAN1, DET2, MPAN2, RD1, ZTR1>>,
                    rows |-> <<>>, text |-> <<>>,
                    bad_at |-> 0, json_ok |-> FALSE, sniff |-> NoSniff],
      \* strict: a reading line after a detail line that is skipped
      ctxC     |-> [lines |-> <<ZHD1, MPAN1, DET2, DETSHORT, RD1, ZTR1>>,
                    rows |-> <<>>, text |-> <<>>,
                    bad_at |-> 0, json_ok |-> FALSE, sniff |-> NoSniff],
      \* fallback: meter and reading lines before any point, then a reading
      \* line after a second metering point
      ctxD     |-> [lines |-> <<ZHV1, FB028, FB030, MPAN1, FB028, MPAN2, FB030, ZPT1>>,
                    rows |-> <<>>, text |-> <<>>,
                    bad_at |-> 0, json_ok |-> FALSE, sniff |-> NoSniff],
      \* fallback: a reading line after a meter line that is skipped
      ctxE     |-> [lines |-> <<ZHV1, MPAN1, FB028, FBDETEMPTY, FB030B, ZPT1>>,
                    rows |-> <<>>, text |-> <<>>,
                    bad_at |-> 0, json_ok |-> FALSE, sniff |-> NoSniff],
      \* strict: a short line of every record type, then a detail line
      ctxG     |-> [lines |-> <<ZHD1, MPAN1, ZHDSHORT, MPANSHORT, DETSHORT, T029,
                                ZTRSHORT, DET1, ZTR1>>,
                    rows |-> <<>>, text |-> <<>>,
                    bad_at |-> 0, json_ok |-> FALSE, sniff |-> NoSniff],
      \* strict: a detail line with an earlier previous day, one with an
      \* earlier previous time on the same day
      ctxF     |-> [lines |-> <<ZHD1, MPAN1, DET1, DET3, ZTR1>>,
                    rows |-> <<>>, text |-> <<>>,
                    bad_at |-> 0, json_ok |-> FALSE, sniff |-> NoSniff],
      \* delimited rows, two of them without serial or value
      gcsv     |-> [lines |-> <<>>, rows |-> <<ROW1, CNOSER, CNOVAL, ROW2>>, text |-> <<>>,
                    bad_at |-> 0, json_ok |-> FALSE,
                    sniff |-> [comma |-> TRUE, lead |-> "", blank |-> FALSE]],
      \* a JSON array on one line, one item without point id
      gjson    |-> [lines |-> <<>>, rows |-> <<ROW1, JNOMPAN, ROW2>>, text |-> <<>>,
                    bad_at |-> 0, json_ok |-> TRUE,
                    sniff |-> [comma |-> TRUE, lead |-> "[", blank |-> FALSE]],
      \* a JSON object on one line
      gobject  |-> [lines |-> <<>>, rows |-> <<ROW2>>, text |-> <<>>,
                    bad_at |-> 0, json_ok |-> TRUE,
                    sniff |-> [comma |-> TRUE, lead |-> "{", blank |-> FALSE]],
      \* reading elements, one without serial
      gxml     |-> [lines |-> <<>>, rows |-> <<XEL1, XEL2, XEL3>>, text |-> <<>>,
                    bad_at |-> 0, json_ok |-> FALSE,
                    sniff |-> [comma |-> FALSE, lead |-> "<", blank |-> FALSE]],
      \* delimited rows under the header Mpan,serial,reading,date
      gcase    |-> [lines |-> <<>>, rows |-> <<CROW1, CROW2>>, text |-> <<>>,
                    bad_at |-> 0, json_ok |-> FALSE,
                    sniff |-> [comma |-> TRUE, lead |-> "", blank |-> FALSE]],
      \* delimited rows: a date no format parses, a date left empty
      gdate    |-> [lines |-> <<>>, rows |-> <<ROWBADDATE, ROW3>>, text |-> <<>>,
                    bad_at |-> 0, json_ok |-> FALSE,
                    sniff |-> [comma |-> TRUE, lead |-> "", blank |-> FALSE]],
      \* free text
      gtxt     |-> [lines |-> <<>>, rows |-> <<>>, text |-> <<TXTPIPE, TXTMIX, TXTSPACE>>,
                    bad_at |-> 0, json_ok |-> FALSE, sniff |-> NoSniff],
      \* a delimited file of one row; the same after a blank first line
      csvtext  |-> [lines |-> <<>>, rows |-> <<ROW1>>, text |-> <<CSVHEAD, CSVLINE1>>,
                    bad_at |-> 0, json_ok |-> FALSE,
                    sniff |-> [comma |-> TRUE, lead |-> "", blank |-> FALSE]],
      blankcsv |-> [lines |-> <<>>, rows |-> <<ROW1>>, text |-> <<CSVHEAD, CSVLINE1>>,
                    bad_at |-> 0, json_ok |-> FALSE,
                    sniff |-> [comma |-> TRUE, lead |-> "", blank |-> TRUE]],
      \* a metering-point line and no header
      pdfpoint |-> [lines |-> <<MPAN1>>, rows |-> <<>>, text |-> <<MPANTXT>>,
                    bad_at |-> 0, json_ok |-> FALSE, sniff |-> NoSniff],
      \* a file of no bytes
      empty    |-> [lines |-> <<>>, rows |-> <<>>, text |-> <<>>,
                    bad_at |-> 0, json_ok |-> FALSE, sniff |-> NoSniff] ]

\* csv.Sniffer().sniff(sample) finds no delimiter in an empty sample and
\* raises csv.Error
SniffRaises == {"empty"}

\* _calculate_checksum: SHA-256 of the bytes, taken as collision-free: the
\* digest of a content is the digest of no other content
Digest ==
    [ strict1 |-> "sha:5f1", strict2 |-> "sha:a02", fallback |-> "sha:c9e",
      csv1 |-> "sha:71b", csv2 |-> "sha:e44", csvbad |-> "sha:0d3", jsonbad |-> "sha:b88",
      strictbad |-> "sha:3ac", strict0 |-> "sha:d17", tstrict |-> "sha:96f",
      tfallback |-> "sha:48e", fallback2 |-> "sha:ee0", csvpoint |-> "sha:2b5",
      plain |-> "sha:7c4", empty |-> "sha:e3b",
      ctxA |-> "sha:a1d", ctxB |-> "sha:b6c", ctxC |-> "sha:c05", ctxD |-> "sha:d93",
      ctxE |-> "sha:e7a", ctxF |-> "sha:f42", ctxG |-> "sha:07b",
      gcsv |-> "sha:1c0", gjson |-> "sha:2d9", gobject |-> "sha:3e8", gxml |-> "sha:4f7",
      gcase |-> "sha:5a6", gdate |-> "sha:6b5", gtxt |-> "sha:7c3", csvtext |-> "sha:8d2",
      blankcsv |-> "sha:9e1", pdfpoint |-> "sha:af0" ]

\* the arguments of the parse_file calls: the path's basename and extension,
\* what the file holds, and original_filename (None, or the uploaded name)
Inputs ==
    { [name |-> "strict.uff",   ext |-> ".uff",  content |-> "strict1",  orig |-> None],
      [name |-> "tmpq1.uff",    ext |-> ".uff",  content |-> "strict1",  orig |-> "upload.uff"],
      [name |-> "strict2.uff",  ext |-> ".uff",  content |-> "strict2",  orig |-> None],
      [name |-> "fallback.uff", ext |-> ".uff",  content |-> "fallback", orig |-> None],
      [name |-> "data.csv",     ext |-> ".csv",  content |-> "csv1",     orig |-> None],
      [name |-> "data2.csv",    ext |-> ".csv",  content |-> "csv2",     orig |-> None],
      [name |-> "broken.csv",   ext |-> ".csv",  content |-> "csvbad",   orig |-> None],
      [name |-> "bad.json",     ext |-> ".json", content |-> "jsonbad",  orig |-> None] }

\* the files of the documented scenarios and of the tests: samples under one
\* filename, a strict file that stops decoding, a file of no known format
ScenInputs ==
    { [name |-> "sample.uff",   ext |-> ".uff",     content |-> "strict0",   orig |-> None],
      [name |-> "test.uff",     ext |-> ".uff",     content |-> "tstrict",   orig |-> None],
      [name |-> "test.uff",     ext |-> ".uff",     content |-> "tfallback", orig |-> None],
      [name |-> "readings.uff", ext |-> ".uff",     content |-> "fallback2", orig |-> None],
      [name |-> "cut.uff",      ext |-> ".uff",     content |-> "strictbad", orig |-> None],
      [name |-> "points.csv",   ext |-> ".csv",     content |-> "csvpoint",  orig |-> None],
      [name |-> "data.csv",     ext |-> ".csv",     content |-> "csv1",      orig |-> None],
      [name |-> "notes.invalid", ext |-> ".invalid", content |-> "plain",    orig |-> None] }

\* files whose extension and content disagree, extracted documents, and
\* files without a known extension
FmtInputs ==
    { [name |-> "rows.txt",    ext |-> ".txt",  content |-> "csvtext",  orig |-> None],
      [name |-> "header.json", ext |-> ".json", content |-> "strict1",  orig |-> None],
      [name |-> "scan.pdf",    ext |-> ".pdf",  content |-> "strict1",  orig |-> None],
      [name |-> "fb.pdf",      ext |-> ".pdf",  content |-> "fallback", orig |-> None],
      [name |-> "notes.pdf",   ext |-> ".pdf",  content |-> "gtxt",     orig |-> None],
      [name |-> "point.pdf",   ext |-> ".pdf",  content |-> "pdfpoint", orig |-> None],
      [name |-> "blank.pdf",   ext |-> ".pdf",  content |-> "empty",    orig |-> None],
      [name |-> "report.docx", ext |-> ".docx", content |-> "plain",    orig |-> None],
      [name |-> "upload",      ext |-> "",      content |-> "strict1",  orig |-> None],
      [name |-> "export",      ext |-> "",      content |-> "gjson",    orig |-> None],
      [name |-> "object",      ext |-> "",      content |-> "gobject",  orig |-> None],
      [name |-> "feed",        ext |-> "",      content |-> "gxml",     orig |-> None],
      [name |-> "notes",       ext |-> "",      content |-> "blankcsv", orig |-> None],
      [name |-> "table",       ext |-> "",      content |-> "csv1",     orig |-> None],
      [name |-> "readme",      ext |-> "",      content |-> "plain",    orig |-> None] }

\* files of the generic formats
GenInputs ==
    { [name |-> "readings.csv",  ext |-> ".csv",  content |-> "gcsv",    orig |-> None],
      [name |-> "readings.json", ext |-> ".json", content |-> "gjson",   orig |-> None],
      [name |-> "readings.xml",  ext |-> ".xml",  content |-> "gxml",    orig |-> None],
      [name |-> "case.csv",      ext |-> ".csv",  content |-> "gcase",   orig |-> None],
      [name |-> "dates.csv",     ext |-> ".csv",  content |-> "gdate",   orig |-> None],
      [name |-> "lines.txt",     ext |-> ".txt",  content |-> "gtxt",    orig |-> None],
      [name |-> "bad.json",      ext |-> ".json", content |-> "jsonbad", orig |-> None] }

\* two files that hold readings of one meter, and a file that fails
DelInputs ==
    { [name |-> "data.csv",  ext |-> ".csv",  content |-> "csv1",    orig |-> None],
      [name |-> "data2.csv", ext |-> ".csv",  content |-> "csv2",    orig |-> None],
      [name |-> "bad.json",  ext |-> ".json", content |-> "jsonbad", orig |-> None] }

\* grammar files whose lines come in an order that tests the import context
CtxInputs ==
    { [name |-> "early.uff",     ext |-> ".uff", content |-> "ctxA",      orig |-> None],
      [name |-> "twopoints.uff", ext |-> ".uff", content |-> "ctxB",      orig |-> None],
      [name |-> "cutline.uff",   ext |-> ".uff", content |-> "ctxC",      orig |-> None],
      [name |-> "fbpoints.uff",  ext |-> ".uff", content |-> "ctxD",      orig |-> None],
      [name |-> "fbcut.uff",     ext |-> ".uff", content |-> "ctxE",      orig |-> None],
      [name |-> "sameday.uff",   ext |-> ".uff", content |-> "ctxF",      orig |-> None],
      [name |-> "short.uff",     ext |-> ".uff", content |-> "ctxG",      orig |-> None],
      [name |-> "test.uff",      ext |-> ".uff", content |-> "tstrict",   orig |-> None],
      [name |-> "cut.uff",       ext |-> ".uff", content |-> "strictbad", orig |-> None] }

\* the .uff files handed to a grammar parser directly
DirectInputs == {i \in Inputs \cup ScenInputs : i.ext = ".uff"}

\* the files two callers import at the same time: they share a Meter serial
\* and a Reading natural key, two of them hold the same bytes, one fails
ConcInputs == {i \in Inputs : i.content \in {"strict1", "strict2", "fallback", "csvbad"}}

\* the paths handed to the import_d0010 command: a file, a copy of it under
\* another name, a file that stops decoding, an empty file, and a path where
\* no file is
BatchFiles ==
    { [name |-> "data.csv",    ext |-> ".csv", content |-> "csv1",   orig |-> None],
      [name |-> "copy.csv",    ext |-> ".csv", content |-> "csv1",   orig |-> None],
      [name |-> "broken.csv",  ext |-> ".csv", content |-> "csvbad", orig |-> None],
      [name |-> "empty.csv",   ext |-> ".csv", content |-> "empty",  orig |-> None],
      [name |-> "missing.csv", ext |-> ".csv", content |-> "absent", orig |-> None] }

\* os.path.exists(file_path)
PathExists(path) == path.content # "absent"

\* options['file_paths'], nargs='+': one path or more
BatchRuns == UNION {[1..n -> BatchFiles] : n \in 1..MaxCalls}

-----------------------------------------------------------------------------
(* Store: rows, visibility and uniqueness.                                 *)
(* @transaction.atomic: a row written inside parse_file carries txn = the  *)
(* writer until the call returns (commit: txn becomes 0) or raises         *)
(* (rollback: the row is removed).  A reader sees committed rows and its   *)
(* own.  A unique index holds the keys of uncommitted rows too: an insert  *)
(* of a key another open transaction has inserted waits for it to end.     *)

Visible(p, rows) == {r \in rows : r.txn = 0 \/ r.txn = p}

Committed(rows) == {r \in rows : r.txn = 0}

\* the insert has to wait: the key is held by another open transaction
Locked(p, sameKey) == \E r \in sameKey : r.txn # 0 /\ r.txn # p

\* QuerySet.first(): the row with the lowest primary key
First(rows) == CHOOSE r \in rows : \A o \in rows : r.pk <= o.pk

\* FlowFile.checksum, unique=True
FilesWithChecksum(sum) == {f \in flowFiles : f.checksum = sum}

\* variant: no Meter is ever matched by its serial
MetersWithSerialNever(serial) == {}

\* Meter.serial_number, unique=True
MetersWithSerial(serial) == {m \in meters : m.serial_number = serial}

\* variant: the reading value is not part of the key
ReadingsWithKeyNoValue(mpk, op) ==
    {r \in readings : /\ r.meter = mpk
                      /\ r.register_id = op.register_id
                      /\ r.reading_date = op.reading_date}

\* variant: the reading type is part of the key
ReadingsWithKeyAndType(mpk, op) ==
    {r \in readings : /\ r.meter = mpk
                      /\ r.register_id = op.register_id
                      /\ r.reading_date = op.reading_date
                      /\ r.reading_value = op.reading_value
                      /\ r.reading_type = op.reading_type}

\* uniq_reading_natural_key: (meter, register_id, reading_date, reading_value)
ReadingsWithKey(mpk, op) ==
    {r \in readings : /\ r.meter = mpk
                      /\ r.register_id = op.register_id
                      /\ r.reading_date = op.reading_date
                      /\ r.reading_value = op.reading_value}

\* the in-memory FlowFile object before parse_file creates one
NoFF == [pk |-> 0, filename |-> "", file_type |-> "", status |-> "", checksum |-> "",
         record_count |-> 0, sequence_number |-> "", version |-> "", sender |-> "",
         receiver |-> "", creation_date |-> 0]

\* the row a Model.save() of object `obj` writes for transaction p
RowOf(obj, p) ==
    [pk |-> obj.pk, filename |-> obj.filename, file_type |-> obj.file_type,
     status |-> obj.status, checksum |-> obj.checksum, record_count |-> obj.record_count,
     sequence_number |-> obj.sequence_number, version |-> obj.version,
     sender |-> obj.sender, receiver |-> obj.receiver,
     creation_date |-> obj.creation_date, txn |-> p]

\* current_flow_file.save(): every field of the object is written to its row
Save(obj, p) == {f \in flowFiles : f.pk # obj.pk} \cup {RowOf(obj, p)}

\* leaving the atomic block normally: the transaction's rows become visible
Commit(rows, p) == {IF r.txn = p THEN [r EXCEPT !.txn = 0] ELSE r : r \in rows}

\* variant: parse_file is not atomic, an exception undoes nothing
RollbackNothing(rows, p) == {IF r.txn = p THEN [r EXCEPT !.txn = 0] ELSE r : r \in rows}

\* leaving the atomic block by an exception: the transaction's rows are gone
Rollback(rows, p) == {r \in rows : r.txn # p}

-----------------------------------------------------------------------------
(* Format detection *)

\* variant: the first line is looked at before the extension
DetectFileFormatSniffFirst(path) ==
    LET c == Content[path.content]
        first == IF c.lines = <<>> THEN <<>> ELSE c.lines[1]
        header == Len(first) >= 2 /\ first[1] \in {"ZHV", "ZHD"}
    IN  IF c.bad_at # 1 /\ ~c.sniff.blank /\ header THEN "uff"
        ELSE IF c.bad_at # 1 /\ ~c.sniff.blank /\ c.sniff.comma /\ c.sniff.lead # "{"
        THEN "csv"
        ELSE IF c.bad_at # 1 /\ ~c.sniff.blank /\ c.sniff.lead \in {"{", "["} THEN "json"
        ELSE IF c.bad_at # 1 /\ ~c.sniff.blank /\ c.sniff.lead = "<" THEN "xml"
        ELSE CASE path.ext = ".uff" -> "uff"
               [] path.ext = ".csv" -> "csv"
               [] path.ext = ".json" -> "json"
               [] path.ext = ".xml" -> "xml"
               [] path.ext = ".txt" -> "txt"
               [] path.ext = ".pdf" -> "pdf"
               [] path.ext \in {".xlsx", ".xls"} -> "excel"
               [] path.ext \in {".docx", ".doc"} -> "word"
               [] OTHER -> "txt"

\* _detect_file_format: the extension first, then the first line
DetectFileFormat(path) ==
    LET c == Content[path.content]
        first == IF c.lines = <<>> THEN <<>> ELSE c.lines[1]
        header == Len(first) >= 2 /\ first[1] \in {"ZHV", "ZHD"}
    IN  CASE path.ext = ".uff" -> "uff"
          [] path.ext = ".csv" -> "csv"
          [] path.ext = ".json" -> "json"
          [] path.ext = ".xml" -> "xml"
          [] path.ext = ".txt" -> "txt"
          [] path.ext = ".pdf" -> "pdf"
          [] path.ext \in {".xlsx", ".xls"} -> "excel"
          [] path.ext \in {".docx", ".doc"} -> "word"
          [] OTHER ->
               IF c.bad_at = 1 \/ c.sniff.blank THEN "txt"
               ELSE IF header THEN "uff"
               ELSE IF c.sniff.comma /\ c.sniff.lead # "{" THEN "csv"
               ELSE IF c.sniff.lead \in {"{", "["} THEN "json"
               ELSE IF c.sniff.lead = "<" THEN "xml"
               ELSE "txt"

\* first_line.startswith('ZHD|')
StartsWithZHD(c) ==
    c.bad_at # 1 /\ c.lines # <<>> /\ Len(c.lines[1]) >= 2 /\ c.lines[1][1] = "ZHD"

-----------------------------------------------------------------------------
(* Upserts a handler asks for, in the order it makes them *)

\* tgt: the stats object the call site counts in ("p": the grammar parser's,
\* "u": the UniversalParser's)
MeterOp(serial, mpan, created, tgt) ==
    [kind |-> "meter", site |-> "meter", serial |-> serial, mpan |-> mpan,
     created_date |-> created, register_id |-> "", reading_date |-> 0,
     reading_value |-> 0, reading_type |-> "", tgt |-> tgt]

\* site: the get_or_create call that makes the upsert ("current" and
\* "previous" of a strict 028 line, "addendum" of a 029/030 line, "generic")
ReadingOp(serial, reg, dt, val, rtype, site, tgt) ==
    [kind |-> "reading", site |-> site, serial |-> serial, mpan |-> "",
     created_date |-> 0, register_id |-> reg, reading_date |-> dt,
     reading_value |-> val, reading_type |-> rtype, tgt |-> tgt]

\* the call sites with an else branch that counts a fetched row as duplicate:
\* every Reading upsert but the placeholder previous reading; no Meter upsert
CountsDuplicate(op) == op.kind = "reading" /\ op.site # "previous"

NoCtx == [current_mpan |-> None, current_meter_serial |-> None,
          current_register_id |-> None]

\* a handler that returns without effect
Skip(ctx, cff) == [ctx |-> ctx, cff |-> cff, ops |-> <<>>, tick |-> FALSE]

\* creation_date of a new Meter: the header's timestamp if known, else now
CreationDate(cff, clk) == IF cff.creation_date # 0 THEN cff.creation_date ELSE Now(clk)

-----------------------------------------------------------------------------
(* Strict grammar: D0010StandardParser.  A handler takes the parser's      *)
(* context, the in-memory FlowFile, the split line, the clock and the      *)
(* Meter rows the caller can see; it gives the new context and FlowFile    *)
(* object, the upserts it makes, and whether a reading was stamped `now`.  *)

ZhdMinFields == 8
ZtrMinFields == 3
MpanMinFields == 3
DetailMinFields == 12
ReadingMinFields == 8
MpanLength == 13

\* strptime of date+time, '%Y%m%d%H%M%S'; 0 when it raises ValueError
Stamp(date, time) == IF IsStamp(date \o time) THEN StampLit[date \o time] ELSE 0

\* variant: a header of fewer than 8 fields sets the fields it has
StdParseZhdNoMinimum(ctx, cff, fields) ==
    IF Len(fields) < ZhdMinFields
    THEN [ctx |-> ctx,
          cff |-> [cff EXCEPT !.sequence_number = IF Len(fields) > 1 THEN Fld(fields, 1)
                                                  ELSE ""],
          ops |-> <<>>, tick |-> FALSE]
    ELSE LET creation_date == Fld(fields, 5)
             creation_time == Fld(fields, 6)
             parsed == IF ~Falsy(creation_date) /\ ~Falsy(creation_time)
                       THEN Stamp(creation_date, creation_time) ELSE 0
         IN  [ctx |-> ctx,
              cff |-> [cff EXCEPT !.sequence_number = Fld(fields, 1),
                                  !.version = Fld(fields, 2),
                                  !.sender = Fld(fields, 3),
                                  !.receiver = Fld(fields, 4),
                                  !.creation_date = IF parsed # 0 THEN parsed ELSE @],
              ops |-> <<>>, tick |-> FALSE]

StdParseZhd(ctx, cff, fields) ==
    IF Len(fields) < ZhdMinFields THEN Skip(ctx, cff)
    ELSE LET creation_date == Fld(fields, 5)
             creation_time == Fld(fields, 6)
             parsed == IF ~Falsy(creation_date) /\ ~Falsy(creation_time)
                       THEN Stamp(creation_date, creation_time) ELSE 0
         IN  [ctx |-> ctx,
              cff |-> [cff EXCEPT !.sequence_number = Fld(fields, 1),
                                  !.version = Fld(fields, 2),
                                  !.sender = Fld(fields, 3),
                                  !.receiver = Fld(fields, 4),
                                  !.creation_date = IF parsed # 0 THEN parsed ELSE @],
              ops |-> <<>>, tick |-> FALSE]

\* variant: a new metering point forgets the current meter and register
StdParse026Resets(ctx, cff, fields) ==
    IF Len(fields) < MpanMinFields THEN Skip(ctx, cff)
    ELSE LET mpan == Fld(fields, 1)
         IN  IF Falsy(mpan) \/ Len(mpan) # MpanLength THEN Skip(ctx, cff)
             ELSE [ctx |-> [NoCtx EXCEPT !.current_mpan = mpan], cff |-> cff,
                   ops |-> <<>>, tick |-> FALSE]

StdParse026(ctx, cff, fields) ==
    IF Len(fields) < MpanMinFields THEN Skip(ctx, cff)
    ELSE LET mpan == Fld(fields, 1)
         IN  IF Falsy(mpan) \/ Len(mpan) # MpanLength THEN Skip(ctx, cff)
             ELSE [ctx |-> [ctx EXCEPT !.current_mpan = mpan], cff |-> cff,
                   ops |-> <<>>, tick |-> FALSE]

\* variant: the detail line is not held back when no metering point is set
StdParse028NoPoint(ctx, cff, fields, clk) ==
    IF Len(fields) < DetailMinFields THEN Skip(ctx, cff)
    ELSE LET register_id == Fld(fields, 1)
             meter_serial == Fld(fields, 4)
             curr_value == Fld(fields, 10)
         IN  IF Falsy(meter_serial) \/ Falsy(curr_value) THEN Skip(ctx, cff)
             ELSE [ctx |-> [ctx EXCEPT !.current_meter_serial = meter_serial,
                                       !.current_register_id = register_id],
                   cff |-> cff,
                   ops |-> <<MeterOp(meter_serial, "", CreationDate(cff, clk), "p")>>,
                   tick |-> FALSE]

StdParse028(ctx, cff, fields, clk) ==
    IF Len(fields) < DetailMinFields THEN Skip(ctx, cff)
    ELSE LET register_id == Fld(fields, 1)
             meter_serial == Fld(fields, 4)
             reading_type == Fld(fields, 5)
             prev_date == Fld(fields, 6)
             prev_time == Fld(fields, 7)
             curr_date == Fld(fields, 8)
             curr_time == Fld(fields, 9)
             curr_value == Fld(fields, 10)
             haveDT == ~Falsy(curr_date) /\ ~Falsy(curr_time)
                       /\ Stamp(curr_date, curr_time) # 0
             reading_dt == IF haveDT THEN Stamp(curr_date, curr_time) ELSE Now(clk)
             meterOp == MeterOp(meter_serial, ctx.current_mpan, CreationDate(cff, clk), "p")
             \* current reading; float() raising ValueError skips it
             curOps == IF IsFloat(curr_value)
                       THEN <<ReadingOp(meter_serial, register_id, reading_dt,
                                        FloatLit[curr_value], reading_type, "current", "p")>>
                       ELSE <<>>
             \* placeholder previous reading: 0.0, Estimated
             prevOps == IF /\ ~Falsy(prev_date) /\ ~Falsy(prev_time)
                           /\ prev_date # curr_date
                           /\ Stamp(prev_date, prev_time) # 0
                        THEN <<ReadingOp(meter_serial, register_id,
                                         Stamp(prev_date, prev_time), 0, "E", "previous", "p")>>
                        ELSE <<>>
         IN  IF Falsy(meter_serial) \/ Falsy(curr_value) THEN Skip(ctx, cff)
             ELSE IF Falsy(ctx.current_mpan) THEN Skip(ctx, cff)
             ELSE [ctx |-> [ctx EXCEPT !.current_meter_serial = meter_serial,
                                       !.current_register_id = register_id],
                   cff |-> cff,
                   ops |-> <<meterOp>> \o curOps \o prevOps,
                   tick |-> IsFloat(curr_value) /\ ~haveDT]

\* variant: the reading is filed under register "00", whatever is remembered
StdParse029NoRegister(ctx, cff, fields, clk, seen) ==
    IF Len(fields) < ReadingMinFields THEN Skip(ctx, cff)
    ELSE LET reading_date == Fld(fields, 2)
             reading_time == Fld(fields, 3)
             register_reading == Fld(fields, 4)
             reading_method == Fld(fields, 6)
             parsed == Stamp(reading_date, reading_time)
             reading_dt == IF parsed # 0 THEN parsed ELSE Now(clk)
         IN  IF Falsy(register_reading) \/ Falsy(reading_date) THEN Skip(ctx, cff)
             ELSE IF ~IsFloat(register_reading) THEN Skip(ctx, cff)
             ELSE IF Falsy(ctx.current_meter_serial) THEN Skip(ctx, cff)
             ELSE IF \A m \in seen : m.serial_number # ctx.current_meter_serial
                  THEN Skip(ctx, cff)
             ELSE [ctx |-> ctx, cff |-> cff,
                   ops |-> <<ReadingOp(ctx.current_meter_serial, "00", reading_dt,
                                       FloatLit[register_reading], reading_method,
                                       "addendum", "p")>>,
                   tick |-> parsed = 0]

StdParse029(ctx, cff, fields, clk, seen) ==
    IF Len(fields) < ReadingMinFields THEN Skip(ctx, cff)
    ELSE LET reading_date == Fld(fields, 2)
             reading_time == Fld(fields, 3)
             register_reading == Fld(fields, 4)
             reading_method == Fld(fields, 6)
             parsed == Stamp(reading_date, reading_time)
             reading_dt == IF parsed # 0 THEN parsed ELSE Now(clk)
             reg == IF Falsy(ctx.current_register_id) THEN "00"
                    ELSE ctx.current_register_id
         IN  IF Falsy(register_reading) \/ Falsy(reading_date) THEN Skip(ctx, cff)
             ELSE IF ~IsFloat(register_reading) THEN Skip(ctx, cff)
             ELSE IF Falsy(ctx.current_meter_serial) THEN Skip(ctx, cff)
             ELSE IF \A m \in seen : m.serial_number # ctx.current_meter_serial
                  THEN Skip(ctx, cff)
             ELSE [ctx |-> ctx, cff |-> cff,
                   ops |-> <<ReadingOp(ctx.current_meter_serial, reg, reading_dt,
                                       FloatLit[register_reading], reading_method,
                                       "addendum", "p")>>,
                   tick |-> parsed = 0]

\* _parse_ztr_record: a short trailer is logged, any other one is logged too
StdParseZtr(ctx, cff, fields) ==
    IF Len(fields) < ZtrMinFields THEN Skip(ctx, cff) ELSE Skip(ctx, cff)

\* D0010StandardParser.parse_record: dispatch on the record-type token
StdParseRecord(ctx, cff, fields, clk, seen) ==
    LET record_type == Fld(fields, 0)
    IN  CASE record_type = "ZHD" -> StdParseZhd(ctx, cff, fields)
          [] record_type = "026" -> StdParse026(ctx, cff, fields)
          [] record_type = "028" -> StdParse028(ctx, cff, fields, clk)
          [] record_type = "029" -> StdParse029(ctx, cff, fields, clk, seen)
          [] record_type = "ZTR" -> StdParseZtr(ctx, cff, fields)
          [] OTHER -> Skip(ctx, cff)

-----------------------------------------------------------------------------
(* Fallback grammar: FallbackParser *)

ZhvMinFields == 8
FbMpanMinFields == 3
FbMeterMinFields == 2
FbReadingMinFields == 5

\* str.isdigit() on the tokens of the corpus
IsDigit(s) == s \in {"20160302", "153151", "153152", "000000", "20160221",
                     "20160222", "20160223", "20160302153151", "20160222000000"}

FbParseZhv(ctx, cff, fields) ==
    IF Len(fields) < ZhvMinFields THEN Skip(ctx, cff)
    ELSE LET creation_date == Fld(fields, 5)
             creation_time == Fld(fields, 6)
             parsed == IF /\ ~Falsy(creation_date) /\ ~Falsy(creation_time)
                          /\ IsDigit(creation_date) /\ IsDigit(creation_time)
                       THEN Stamp(creation_date, creation_time) ELSE 0
         IN  [ctx |-> ctx,
              cff |-> [cff EXCEPT !.sequence_number = Fld(fields, 1),
                                  !.version = Fld(fields, 2),
                                  !.sender = Fld(fields, 3),
                                  !.receiver = Fld(fields, 4),
                                  !.creation_date = IF parsed # 0 THEN parsed ELSE @],
              ops |-> <<>>, tick |-> FALSE]

\* variant: a new metering point forgets the current meter and register
FbParse026Resets(ctx, cff, fields) ==
    IF Len(fields) < FbMpanMinFields THEN Skip(ctx, cff)
    ELSE LET mpan == Fld(fields, 1)
         IN  IF Falsy(mpan) THEN Skip(ctx, cff)
             ELSE [ctx |-> [NoCtx EXCEPT !.current_mpan = mpan], cff |-> cff,
                   ops |-> <<>>, tick |-> FALSE]

FbParse026(ctx, cff, fields) ==
    IF Len(fields) < FbMpanMinFields THEN Skip(ctx, cff)
    ELSE LET mpan == Fld(fields, 1)
         IN  IF Falsy(mpan) THEN Skip(ctx, cff)
             ELSE [ctx |-> [ctx EXCEPT !.current_mpan = mpan], cff |-> cff,
                   ops |-> <<>>, tick |-> FALSE]

FbParse028(ctx, cff, fields, clk) ==
    IF Len(fields) < FbMeterMinFields THEN Skip(ctx, cff)
    ELSE LET meter_serial == Fld(fields, 1)
         IN  IF Falsy(meter_serial) THEN Skip(ctx, cff)
             ELSE IF Falsy(ctx.current_mpan) THEN Skip(ctx, cff)
             ELSE [ctx |-> [ctx EXCEPT !.current_meter_serial = meter_serial,
                                       !.current_register_id = "00"],
                   cff |-> cff,
                   ops |-> <<MeterOp(meter_serial, ctx.current_mpan, Now(clk), "p")>>,
                   tick |-> FALSE]

FbParse030(ctx, cff, fields, clk, seen) ==
    IF Len(fields) < FbReadingMinFields THEN Skip(ctx, cff)
    ELSE LET reading_type == Fld(fields, 1)
             reading_date == Fld(fields, 2)
             reading_value == Fld(fields, 3)
             parsed == IF IsStamp(reading_date) THEN StampLit[reading_date] ELSE 0
             reading_dt == IF parsed # 0 THEN parsed ELSE Now(clk)
             reg == IF Falsy(ctx.current_register_id) THEN "00"
                    ELSE ctx.current_register_id
         IN  IF Falsy(reading_value) \/ Falsy(reading_date) THEN Skip(ctx, cff)
             ELSE IF ~IsFloat(reading_value) THEN Skip(ctx, cff)
             ELSE IF Falsy(ctx.current_meter_serial) THEN Skip(ctx, cff)
             ELSE IF \A m \in seen : m.serial_number # ctx.current_meter_serial
                  THEN Skip(ctx, cff)
             ELSE [ctx |-> ctx, cff |-> cff,
                   ops |-> <<ReadingOp(ctx.current_meter_serial, reg, reading_dt,
                                       FloatLit[reading_value], reading_type,
                                       "addendum", "p")>>,
                   tick |-> parsed = 0]

\* variant: an unknown record type forgets the current MPAN and meter
FbParseRecordForgets(ctx, cff, fields, clk, seen) ==
    LET record_type == Fld(fields, 0)
    IN  CASE record_type = "ZHV" -> FbParseZhv(ctx, cff, fields)
          [] record_type = "026" -> FbParse026(ctx, cff, fields)
          [] record_type = "028" -> FbParse028(ctx, cff, fields, clk)
          [] record_type = "030" -> FbParse030(ctx, cff, fields, clk, seen)
          [] record_type = "ZPT" -> Skip(ctx, cff)
          [] OTHER -> Skip(NoCtx, cff)

\* FallbackParser.parse_record: dispatch on the record-type token
FbParseRecord(ctx, cff, fields, clk, seen) ==
    LET record_type == Fld(fields, 0)
    IN  CASE record_type = "ZHV" -> FbParseZhv(ctx, cff, fields)
          [] record_type = "026" -> FbParse026(ctx, cff, fields)
          [] record_type = "028" -> FbParse028(ctx, cff, fields, clk)
          [] record_type = "030" -> FbParse030(ctx, cff, fields, clk, seen)
          [] record_type = "ZPT" -> Skip(ctx, cff)
          [] OTHER -> Skip(ctx, cff)

-----------------------------------------------------------------------------
(* Generic extractors: UniversalParser *)

\* the first of the four date formats that parses; 0 when none does
\* variant: no date format parses
GenericDateNever(s) == 0

GenericDate(s) ==
    IF \E i \in 1..Len(GenericDateLit) : s \in DOMAIN GenericDateLit[i]
    THEN LET i == CHOOSE k \in 1..Len(GenericDateLit) :
                     /\ s \in DOMAIN GenericDateLit[k]
                     /\ \A j \in 1..(k - 1) : s \notin DOMAIN GenericDateLit[j]
         IN  GenericDateLit[i][s]
    ELSE 0

\* _create_meter_data.  A date that no format parses leaves reading_dt None:
\* the insert violates NOT NULL, get_or_create re-raises and the outer
\* handler logs it, so no Reading is upserted.
CreateMeterData(ctx, cff, mpan, serial, reading_value, reading_date, clk) ==
    LET meterOp == MeterOp(serial, mpan, CreationDate(cff, clk), "u")
        dated == ~Falsy(reading_date)
        reading_dt == IF dated THEN GenericDate(reading_date) ELSE Now(clk)
        readOps == IF ~Falsy(reading_value) /\ IsFloat(reading_value) /\ reading_dt # 0
                   THEN <<ReadingOp(serial, "00", reading_dt, FloatLit[reading_value],
                                    "R", "generic", "u")>>
                   ELSE <<>>
    IN  [ctx |-> ctx, cff |-> cff, ops |-> <<meterOp>> \o readOps,
         tick |-> readOps # <<>> /\ ~dated]

\* variant: point id and serial are enough, the value is not asked for
ProcessItemNoValue(ctx, cff, row, clk) ==
    LET mpan == Or3(DictGet(row, "mpan"), DictGet(row, "MPAN"), DictGet(row, "meter_point"))
        serial == Or3(DictGet(row, "serial"), DictGet(row, "SERIAL"),
                      DictGet(row, "meter_serial"))
        reading_value == Or3(DictGet(row, "reading"), DictGet(row, "READING"),
                             DictGet(row, "value"))
        reading_date == Or3(DictGet(row, "date"), DictGet(row, "DATE"),
                            DictGet(row, "reading_date"))
    IN  IF ~Falsy(mpan) /\ ~Falsy(serial)
        THEN CreateMeterData(ctx, cff, mpan, serial, reading_value, reading_date, clk)
        ELSE Skip(ctx, cff)

\* one row of _parse_csv_file, one item of _process_json_item
ProcessItem(ctx, cff, row, clk) ==
    LET mpan == Or3(DictGet(row, "mpan"), DictGet(row, "MPAN"), DictGet(row, "meter_point"))
        serial == Or3(DictGet(row, "serial"), DictGet(row, "SERIAL"),
                      DictGet(row, "meter_serial"))
        reading_value == Or3(DictGet(row, "reading"), DictGet(row, "READING"),
                             DictGet(row, "value"))
        reading_date == Or3(DictGet(row, "date"), DictGet(row, "DATE"),
                            DictGet(row, "reading_date"))
    IN  IF ~Falsy(mpan) /\ ~Falsy(serial) /\ ~Falsy(reading_value)
        THEN CreateMeterData(ctx, cff, mpan, serial, reading_value, reading_date, clk)
        ELSE Skip(ctx, cff)

\* one <reading> element of _parse_xml_file: (attribute or child text) when
\* the child element exists, else None
XmlField(elem, key) ==
    IF key \in DOMAIN elem.child
    THEN (IF ~Falsy(DictGet(elem.attr, key)) THEN DictGet(elem.attr, key)
          ELSE elem.child[key])
    ELSE None

ProcessXmlElement(ctx, cff, elem, clk) ==
    LET mpan == XmlField(elem, "mpan")
        serial == XmlField(elem, "serial")
        reading_value == XmlField(elem, "value")
        reading_date == XmlField(elem, "date")
    IN  IF ~Falsy(mpan) /\ ~Falsy(serial) /\ ~Falsy(reading_value)
        THEN CreateMeterData(ctx, cff, mpan, serial, reading_value, reading_date, clk)
        ELSE Skip(ctx, cff)

\* _parse_pdf_file when no text was extracted: the dummy entry
PdfNoContent(ctx, cff, clk) ==
    CreateMeterData(ctx, cff, "PDF_NO_CONTENT_MPAN", "PDF_NO_CONTENT_SERIAL",
                    "0.000", None, clk)

TxtMinParts == 3

\* one line of _parse_txt_file: split on the first of '|', tab, ',' the line
\* holds, else on whitespace; at least three parts give point, serial, value
ProcessTxtLine(ctx, cff, line, clk) ==
    LET parts == IF Len(line.pipe) > 1 THEN line.pipe
                 ELSE IF Len(line.tab) > 1 THEN line.tab
                 ELSE IF Len(line.comma) > 1 THEN line.comma
                 ELSE line.space
        reading_date == IF Len(parts) > 3 THEN parts[4] ELSE None
    IN  IF Len(parts) >= TxtMinParts
           /\ ~Falsy(parts[1]) /\ ~Falsy(parts[2]) /\ ~Falsy(parts[3])
        THEN CreateMeterData(ctx, cff, parts[1], parts[2], parts[3], reading_date, clk)
        ELSE Skip(ctx, cff)

-----------------------------------------------------------------------------
(* parse_file, step by step *)

NoPath == [name |-> "", ext |-> "", content |-> "", orig |-> None]

NoRet == [pk |-> 0, record_count |-> 0, stats |-> ZeroStats]

\* a caller with a newly constructed UniversalParser
FreshProc ==
    [pc |-> "idle",
     stats |-> ZeroStats, cff |-> NoFF,                     \* UniversalParser fields
     path |-> NoPath, filename |-> "", checksum |-> "", format |-> "",
     parser |-> "none", pstats |-> ZeroStats, ctx |-> NoCtx, \* the grammar parser
     direct |-> FALSE,               \* the grammar parser's own parse_file was called
     idx |-> 0, todo |-> <<>>,
     last |-> "none",                                       \* how the last upsert ended
     outcome |-> "none", errPrior |-> "", ret |-> NoRet]    \* what the caller got

\* no command run: the counters of Command.handle before its loop
NoBatch ==
    [state |-> "none", files |-> <<>>, pos |-> 0, report |-> <<>>,
     successful_imports |-> 0, skipped_files |-> 0, errors |-> 0, summary |-> FALSE]

Init ==
    /\ flowFiles = {}
    /\ meters = {}
    /\ readings = {}
    /\ nextPk = [flow |-> 1, meter |-> 1, reading |-> 1]
    /\ clock = 0
    /\ calls = 0
    /\ proc = [p \in Procs |-> FreshProc]
    /\ batch = NoBatch

\* file_format.upper()
Upper(tag) ==
    CASE tag = "uff" -> "UFF" [] tag = "csv" -> "CSV" [] tag = "json" -> "JSON"
      [] tag = "xml" -> "XML" [] tag = "txt" -> "TXT" [] tag = "pdf" -> "PDF"
      [] tag = "excel" -> "EXCEL" [] tag = "word" -> "WORD"

\* variant: the duplicate check looks the filename up, not the checksum
ExistingFileByName(p, path, filename) ==
    Visible(p, {f \in flowFiles : f.filename = filename})

\* FlowFile.objects.filter(checksum=checksum): the rows the caller can see
ExistingFile(p, path, filename) == Visible(p, FilesWithChecksum(Digest[path.content]))

\* variant: the error names the file being imported
PriorNameOwn(existing, filename) == filename

\* the filename the duplicate-content error names: the stored file's
PriorName(existing, filename) == First(existing).filename

\* parse_file up to the duplicate check: raise DuplicateContent, or go on
ParseFileCall(p, path) ==
    /\ proc[p].pc = "idle"
    /\ calls < MaxCalls
    /\ calls' = calls + 1
    /\ LET filename == IF ~Falsy(path.orig) THEN path.orig ELSE path.name
           existing == ExistingFile(p, path, filename)
       IN  proc' = IF existing # {}
                   THEN [proc EXCEPT ![p] = [@ EXCEPT !.path = path,
                                                      !.filename = filename,
                                                      !.checksum = Digest[path.content],
                                                      !.outcome = "DuplicateContent",
                                                      !.errPrior = PriorName(existing, filename),
                                                      !.ret = NoRet]]
                   ELSE [proc EXCEPT ![p] = [@ EXCEPT !.pc = "create",
                                                      !.path = path,
                                                      !.filename = filename,
                                                      !.checksum = Digest[path.content],
                                                      !.format = DetectFileFormat(path),
                                                      !.outcome = "none",
                                                      !.errPrior = "",
                                                      !.ret = NoRet]]
    /\ UNCHANGED <<flowFiles, meters, readings, nextPk, clock>>

\* 'ZHD|' in content or 'ZHV|' in content or '026|' in content
HoldsMarker(c) ==
    \E i \in 1..Len(c.lines) :
        Len(c.lines[i]) >= 2 /\ c.lines[i][1] \in {"ZHD", "ZHV", "026"}

\* the lines that start with ZHD| or ZHV|
HeaderLines(c) ==
    {i \in 1..Len(c.lines) : Len(c.lines[i]) >= 2 /\ c.lines[i][1] \in {"ZHD", "ZHV"}}

\* _parse_pdf_file: no text unless a marker is found; the first header line
\* selects the grammar parser; text without a header line is free text
PdfParser(c) ==
    IF ~HoldsMarker(c) THEN "sentinel"
    ELSE IF HeaderLines(c) = {} THEN "txt"
    ELSE LET i == CHOOSE k \in HeaderLines(c) : \A j \in HeaderLines(c) : k <= j
         IN  IF c.lines[i][1] = "ZHD" THEN "std" ELSE "fb"

\* the parser the format selects; for 'uff' the strict parser when the first
\* line starts with ZHD|, else (ValueError, caught) the fallback parser
ParserFor(format, c) ==
    IF format = "uff" THEN (IF StartsWithZHD(c) THEN "std" ELSE "fb")
    ELSE IF format = "pdf" THEN PdfParser(c)
    ELSE format

\* variant: parsing starts before the FlowFile row is written
CreateFlowFileLate(p) ==
    LET me == proc[p]
        obj == [NoFF EXCEPT !.pk = nextPk.flow, !.filename = me.filename,
                            !.file_type = Upper(me.format), !.status = "PROCESSING",
                            !.checksum = me.checksum]
    IN  /\ me.pc = "create"
        /\ proc' = [proc EXCEPT ![p] =
                      [@ EXCEPT !.pc = "parse", !.cff = obj,
                                !.parser = ParserFor(me.format, Content[me.path.content]),
                                !.pstats = ZeroStats, !.ctx = NoCtx,
                                !.idx = 1, !.todo = <<>>, !.last = "none"]]
        /\ UNCHANGED <<flowFiles, nextPk, meters, readings, clock, calls, batch>>

\* FlowFile.objects.create(status='PROCESSING'), outside the try block: a
\* checksum committed since the check raises IntegrityError to the caller
CreateFlowFile(p) ==
    LET me == proc[p]
        same == FilesWithChecksum(me.checksum)
        obj == [NoFF EXCEPT !.pk = nextPk.flow, !.filename = me.filename,
                            !.file_type = Upper(me.format), !.status = "PROCESSING",
                            !.checksum = me.checksum]
    IN  /\ me.pc = "create"
        /\ ~Locked(p, same)
        /\ IF same # {}
           THEN /\ proc' = [proc EXCEPT ![p] = [@ EXCEPT !.pc = "idle",
                                                         !.outcome = "IntegrityError"]]
                /\ UNCHANGED <<flowFiles, nextPk>>
           ELSE /\ flowFiles' = flowFiles \cup {RowOf(obj, p)}
                /\ nextPk' = [nextPk EXCEPT !.flow = @ + 1]
                /\ proc' = [proc EXCEPT ![p] =
                              [@ EXCEPT !.pc = "parse", !.cff = obj,
                                        !.parser = ParserFor(me.format, Content[me.path.content]),
                                        !.pstats = ZeroStats, !.ctx = NoCtx,
                                        !.idx = 1, !.todo = <<>>, !.last = "none"]]
        /\ UNCHANGED <<meters, readings, clock, calls, batch>>

\* what the parser iterates over
Items(c, parser) ==
    IF parser \in {"std", "fb"} THEN c.lines
    ELSE IF parser \in {"txt", "excel", "word"} THEN c.text
    ELSE IF parser = "sentinel" THEN <<"PDF_NO_CONTENT">>
    \* a JSON text on one line is, to csv.DictReader, a header and no row
    ELSE IF parser = "csv" /\ c.sniff.lead \in {"{", "["} THEN <<>>
    ELSE c.rows

\* reading the idx-th item raises (undecodable bytes; json.load rejecting the text)
ReadFails(me) ==
    LET c == Content[me.path.content]
    IN  \/ (me.parser = "json" /\ ~c.json_ok)
        \/ (me.format # "pdf" /\ c.bad_at = me.idx)
        \/ (me.parser = "csv" /\ me.path.content \in SniffRaises)

AtEnd(me) == ~ReadFails(me) /\ me.idx > Len(Items(Content[me.path.content], me.parser))

\* the exception a failed import re-raises: UnicodeDecodeError and
\* json.JSONDecodeError (both ValueError) are one outcome, csv.Error another,
\* the KeyError of a grammar parser's own parse_file a third
Raised(me) ==
    IF me.parser = "csv" /\ me.path.content \in SniffRaises THEN "CsvError"
    ELSE IF me.direct /\ AtEnd(me) THEN "KeyError"
    ELSE "FileError"

\* the handler of the selected parser for one line or item
Handle(parser, ctx, cff, item, clk, seen) ==
    CASE parser = "std" -> StdParseRecord(ctx, cff, item, clk, seen)
      [] parser = "fb" -> FbParseRecord(ctx, cff, item, clk, seen)
      [] parser \in {"txt", "excel", "word"} -> ProcessTxtLine(ctx, cff, item, clk)
      [] parser = "xml" -> ProcessXmlElement(ctx, cff, item, clk)
      [] parser = "sentinel" -> PdfNoContent(ctx, cff, clk)
      [] OTHER -> ProcessItem(ctx, cff, item, clk)

\* one turn of the parsing loop: the next line or item is read and handled
ParseStep(p) ==
    LET me == proc[p]
        c == Content[me.path.content]
        r == Handle(me.parser, me.ctx, me.cff, Items(c, me.parser)[me.idx], clock,
                    Visible(p, meters))
    IN  /\ me.pc = "parse"
        /\ ~AtEnd(me)
        /\ IF ReadFails(me)
           THEN /\ proc' = IF me.parser = "std" /\ ~me.direct
                           \* the strict loop's exception is caught: a new
                           \* FallbackParser reads the file from its first line
                           THEN [proc EXCEPT ![p] = [@ EXCEPT !.parser = "fb",
                                                              !.pstats = ZeroStats,
                                                              !.ctx = NoCtx, !.idx = 1]]
                           ELSE [proc EXCEPT ![p].pc = "fail"]
                /\ UNCHANGED clock
           ELSE /\ proc' = [proc EXCEPT ![p] =
                              [@ EXCEPT !.ctx = r.ctx, !.cff = r.cff, !.todo = r.ops,
                                        !.idx = @ + 1,
                                        !.pc = IF r.ops = <<>> THEN "parse" ELSE "get"]]
                /\ clock' = IF r.tick THEN clock + 1 ELSE clock
        /\ UNCHANGED <<flowFiles, meters, readings, nextPk, calls, batch>>

\* the Meter a Reading upsert is made against: the object the handler holds
OpMeter(p, op) == Visible(p, MetersWithSerial(op.serial))

\* every row holding the key of the upsert, visible or not
SameKey(p, op) ==
    IF op.kind = "meter" THEN MetersWithSerial(op.serial)
    ELSE IF OpMeter(p, op) = {} THEN {}
    ELSE ReadingsWithKey(First(OpMeter(p, op)).pk, op)

\* the counters after an upsert: created rows, and fetched ones where counted
Counted(st, op, created) ==
    IF created
    THEN IF op.kind = "meter" THEN [st EXCEPT !.meters_created = @ + 1]
         ELSE [st EXCEPT !.readings_created = @ + 1]
    ELSE IF CountsDuplicate(op) THEN [st EXCEPT !.duplicates_skipped = @ + 1] ELSE st

\* the caller after the head upsert ended as `how`
Popped(me, op, created, how) ==
    [me EXCEPT !.stats = IF op.tgt = "u" THEN Counted(@, op, created) ELSE @,
               !.pstats = IF op.tgt = "p" THEN Counted(@, op, created) ELSE @,
               !.todo = Tail(@),
               !.last = how,
               !.pc = IF Tail(me.todo) = <<>> THEN "parse" ELSE "get"]

\* the exception leaves the handler: the per-line handler logs it
Aborted(me) == [me EXCEPT !.todo = <<>>, !.last = "raised", !.pc = "parse"]

\* variant: update_or_create, a fetched Meter takes the defaults of the upsert
GetOverwrites(p) ==
    LET me == proc[p]
        op == Head(me.todo)
        found == Visible(p, SameKey(p, op))
    IN  /\ me.pc = "get"
        /\ proc' = IF op.kind = "reading" /\ OpMeter(p, op) = {}
                   THEN [proc EXCEPT ![p] = Aborted(me)]
                   ELSE IF found # {}
                   THEN [proc EXCEPT ![p] = Popped(me, op, FALSE, "found")]
                   ELSE [proc EXCEPT ![p].pc = "insert"]
        /\ meters' = IF op.kind = "meter" /\ found # {}
                     THEN {IF m \in found
                           THEN [m EXCEPT !.mpan = op.mpan, !.flow_file = me.cff.pk]
                           ELSE m : m \in meters}
                     ELSE meters
        /\ UNCHANGED <<flowFiles, readings, nextPk, clock, calls, batch>>

\* get_or_create, the fetch
Get(p) ==
    LET me == proc[p]
        op == Head(me.todo)
    IN  /\ me.pc = "get"
        /\ proc' = IF op.kind = "reading" /\ OpMeter(p, op) = {}
                   THEN [proc EXCEPT ![p] = Aborted(me)]
                   ELSE IF Visible(p, SameKey(p, op)) # {}
                   THEN [proc EXCEPT ![p] = Popped(me, op, FALSE, "found")]
                   ELSE [proc EXCEPT ![p].pc = "insert"]
        /\ UNCHANGED <<flowFiles, meters, readings, nextPk, clock, calls, batch>>

NewMeter(p, op, cff) ==
    [pk |-> nextPk.meter, serial_number |-> op.serial, mpan |-> op.mpan,
     meter_type |-> "E", flow_file |-> cff.pk, created_date |-> op.created_date,
     txn |-> p]

NewReading(p, op, cff) ==
    [pk |-> nextPk.reading, meter |-> First(OpMeter(p, op)).pk,
     register_id |-> op.register_id, reading_date |-> op.reading_date,
     reading_value |-> op.reading_value, reading_type |-> op.reading_type,
     flow_file |-> cff.pk, txn |-> p]

\* variant: the IntegrityError of the insert is not followed by a fetch
RefetchNever(p, same) == {}

\* get_or_create, except IntegrityError: the row is fetched again
Refetch(p, same) == Visible(p, same)

\* get_or_create, the insert: it waits for an open transaction holding the
\* key; a key committed meanwhile raises IntegrityError inside the savepoint
\* and the row is fetched again
Insert(p) ==
    LET me == proc[p]
        op == Head(me.todo)
        same == SameKey(p, op)
    IN  /\ me.pc = "insert"
        /\ ~Locked(p, same)
        /\ IF same # {}
           THEN /\ proc' = IF Refetch(p, same) # {}
                           THEN [proc EXCEPT ![p] = Popped(me, op, FALSE, "refetched")]
                           ELSE [proc EXCEPT ![p] = Aborted(me)]
                /\ UNCHANGED <<meters, readings, nextPk>>
           ELSE /\ proc' = [proc EXCEPT ![p] = Popped(me, op, TRUE, "created")]
                /\ IF op.kind = "meter"
                   THEN /\ meters' = meters \cup {NewMeter(p, op, me.cff)}
                        /\ nextPk' = [nextPk EXCEPT !.meter = @ + 1]
                        /\ UNCHANGED readings
                   ELSE /\ readings' = readings \cup {NewReading(p, op, me.cff)}
                        /\ nextPk' = [nextPk EXCEPT !.reading = @ + 1]
                        /\ UNCHANGED meters
        /\ UNCHANGED <<flowFiles, clock, calls, batch>>

\* variant: the grammar parser's stats are not taken over
StatsAfterOwn(me) == me.stats

\* self.stats after the parsing branch: the grammar parser's stats object
\* replaces the instance's; the generic extractors counted in place
StatsAfter(me) == IF me.parser \in {"std", "fb"} THEN me.pstats ELSE me.stats

\* the end of parse_file: record count, status IMPORTED, save, return (commit)
Finish(p) ==
    LET me == proc[p]
        st == StatsAfter(me)
        obj == [me.cff EXCEPT !.record_count = st.meters_created + st.readings_created,
                              !.status = "IMPORTED"]
    IN  /\ me.pc = "parse"
        /\ ~me.direct
        /\ AtEnd(me)
        /\ flowFiles' = Commit(Save(obj, p), p)
        /\ meters' = Commit(meters, p)
        /\ readings' = Commit(readings, p)
        /\ proc' = [proc EXCEPT ![p] =
                      [@ EXCEPT !.pc = "idle", !.stats = st, !.cff = obj,
                                !.parser = "none", !.pstats = ZeroStats, !.ctx = NoCtx,
                                !.idx = 0, !.outcome = "ok",
                                !.ret = [pk |-> obj.pk, record_count |-> obj.record_count,
                                         stats |-> st]]]
        /\ UNCHANGED <<nextPk, clock, calls, batch>>

\* variant: the except block re-raises without touching the status
FailSaveNoStatus(p) ==
    /\ proc[p].pc = "fail"
    /\ proc' = [proc EXCEPT ![p].pc = "raise"]
    /\ UNCHANGED <<flowFiles, meters, readings, nextPk, clock, calls, batch>>

\* except Exception: status ERROR, save
FailSave(p) ==
    LET me == proc[p]
        obj == [me.cff EXCEPT !.status = "ERROR"]
    IN  /\ me.pc = "fail"
        /\ flowFiles' = Save(obj, p)
        /\ proc' = [proc EXCEPT ![p] = [@ EXCEPT !.pc = "raise", !.cff = obj]]
        /\ UNCHANGED <<meters, readings, nextPk, clock, calls, batch>>

\* ... raise: the exception leaves the atomic block
Raise(p) ==
    LET me == proc[p]
    IN  /\ me.pc = "raise"
        /\ flowFiles' = Rollback(flowFiles, p)
        /\ meters' = Rollback(meters, p)
        /\ readings' = Rollback(readings, p)
        /\ proc' = [proc EXCEPT ![p] =
                      [@ EXCEPT !.pc = "idle", !.parser = "none", !.pstats = ZeroStats,
                                !.ctx = NoCtx, !.idx = 0, !.outcome = Raised(me)]]
        /\ UNCHANGED <<nextPk, clock, calls, batch>>

\* the caller constructs a new UniversalParser and drops the last result
NewParser(p) ==
    /\ proc[p].pc = "idle"
    /\ proc[p] # FreshProc
    /\ proc' = [proc EXCEPT ![p] = FreshProc]
    /\ UNCHANGED <<flowFiles, meters, readings, nextPk, clock, calls, batch>>

\* a call made while no other caller is inside parse_file
SeqCall(p, path) ==
    /\ \A q \in Procs : proc[q].pc = "idle"
    /\ ParseFileCall(p, path)
    /\ UNCHANGED batch

\* D0010StandardParser.parse_file or FallbackParser.parse_file (grammar "std"
\* or "fb") called on a new parser object, up to the duplicate check
GrammarParseFileCall(p, path, grammar) ==
    /\ \A q \in Procs : proc[q].pc = "idle"
    /\ calls < MaxCalls
    /\ calls' = calls + 1
    /\ LET filename == IF ~Falsy(path.orig) THEN path.orig ELSE path.name
           existing == ExistingFile(p, path, filename)
           new == [FreshProc EXCEPT !.direct = TRUE, !.parser = grammar, !.path = path,
                                    !.filename = filename,
                                    !.checksum = Digest[path.content]]
       IN  proc' = IF existing # {}
                   THEN [proc EXCEPT ![p] = [new EXCEPT !.outcome = "DuplicateContent",
                                                        !.errPrior = PriorName(existing, filename)]]
                   ELSE [proc EXCEPT ![p] = [new EXCEPT !.pc = "gcreate"]]
    /\ UNCHANGED <<flowFiles, meters, readings, nextPk, clock, batch>>

\* FlowFile.objects.create(file_type='D0010' or 'UFF', status='PROCESSING')
GrammarCreateFlowFile(p) ==
    LET me == proc[p]
        same == FilesWithChecksum(me.checksum)
        obj == [NoFF EXCEPT !.pk = nextPk.flow, !.filename = me.filename,
                            !.file_type = IF me.parser = "std" THEN "D0010" ELSE "UFF",
                            !.status = "PROCESSING", !.checksum = me.checksum]
    IN  /\ me.pc = "gcreate"
        /\ ~Locked(p, same)
        /\ IF same # {}
           THEN /\ proc' = [proc EXCEPT ![p] = [@ EXCEPT !.pc = "idle",
                                                         !.outcome = "IntegrityError"]]
                /\ UNCHANGED <<flowFiles, nextPk>>
           ELSE /\ flowFiles' = flowFiles \cup {RowOf(obj, p)}
                /\ nextPk' = [nextPk EXCEPT !.flow = @ + 1]
                /\ proc' = [proc EXCEPT ![p] = [@ EXCEPT !.pc = "parse", !.cff = obj,
                                                         !.idx = 1]]
        /\ UNCHANGED <<meters, readings, clock, calls, batch>>

\* after the loop: self.stats['meter_points_created'], a key __init__ never
\* sets, raises KeyError inside the try block
GrammarFinish(p) ==
    LET me == proc[p]
    IN  /\ me.pc = "parse"
        /\ me.direct
        /\ AtEnd(me)
        /\ proc' = [proc EXCEPT ![p].pc = "fail"]
        /\ UNCHANGED <<flowFiles, meters, readings, nextPk, clock, calls, batch>>

\* imports one after the other, the caller reusing its parser or not
Next ==
    \/ \E path \in Inputs : SeqCall(1, path)
    \/ CreateFlowFile(1)
    \/ ParseStep(1)
    \/ Get(1)
    \/ Insert(1)
    \/ Finish(1)
    \/ FailSave(1)
    \/ Raise(1)
    \/ NewParser(1)

Spec == Init /\ [][Next]_vars

\* the scenario files, imported one after the other
NextScen ==
    \/ \E path \in ScenInputs : SeqCall(1, path)
    \/ CreateFlowFile(1)
    \/ ParseStep(1)
    \/ Get(1)
    \/ Insert(1)
    \/ Finish(1)
    \/ FailSave(1)
    \/ Raise(1)
    \/ NewParser(1)

SpecScen == Init /\ [][NextScen]_vars

\* imports by two callers that run at the same time, each with its parser
NextConc ==
    \E p \in Procs :
        \/ \E path \in ConcInputs : ParseFileCall(p, path) /\ UNCHANGED batch
        \/ CreateFlowFile(p)
        \/ ParseStep(p)
        \/ Get(p)
        \/ Insert(p)
        \/ Finish(p)
        \/ FailSave(p)
        \/ Raise(p)

SpecConc == Init /\ [][NextConc]_vars

\* the exceptions `except ValueError` catches: the duplicate-content
\* ValueError, and the read failures of the corpus (UnicodeDecodeError and
\* json.JSONDecodeError are subclasses of ValueError); IntegrityError and
\* csv.Error are not
IsValueError(outcome) == outcome \in {"DuplicateContent", "FileError"}

\* Command.handle up to its loop: one UniversalParser for the whole run
CommandHandle(files) ==
    /\ batch.state = "none"
    /\ \A q \in Procs : proc[q].pc = "idle"
    /\ batch' = [NoBatch EXCEPT !.state = "loop", !.files = files, !.pos = 1]
    /\ proc' = [proc EXCEPT ![1] = FreshProc]
    /\ UNCHANGED <<flowFiles, meters, readings, nextPk, clock, calls>>

\* the loop takes the next path: CommandError when no file is there (the
\* command ends), else parser.parse_file(file_path) is entered
BatchNextFile ==
    LET path == batch.files[batch.pos]
    IN  /\ batch.state = "loop"
        /\ batch.pos <= Len(batch.files)
        /\ IF ~PathExists(path)
           THEN /\ batch' = [batch EXCEPT !.state = "aborted",
                                          !.report = Append(@, [at |-> batch.pos,
                                                                outcome |-> "error"])]
                /\ UNCHANGED <<flowFiles, meters, readings, nextPk, clock, calls, proc>>
           ELSE /\ ParseFileCall(1, path)
                /\ batch' = [batch EXCEPT !.state = "call"]

\* parse_file returned or raised: success message, or `except ValueError`
\* (warning, the loop goes on), or `except Exception` (CommandError)
BatchOutcome ==
    LET me == proc[1]
    IN  /\ batch.state = "call"
        /\ me.pc = "idle"
        /\ batch' =
             IF me.outcome = "ok"
             THEN [batch EXCEPT !.successful_imports = @ + 1, !.state = "loop",
                                !.pos = @ + 1,
                                !.report = Append(@, [at |-> batch.pos,
                                                      outcome |-> "imported"])]
             ELSE IF IsValueError(me.outcome)
             THEN [batch EXCEPT !.skipped_files = @ + 1, !.state = "loop",
                                !.pos = @ + 1,
                                !.report = Append(@, [at |-> batch.pos,
                                                      outcome |-> "skipped"])]
             ELSE [batch EXCEPT !.errors = @ + 1, !.state = "aborted",
                                !.report = Append(@, [at |-> batch.pos,
                                                      outcome |-> "error"])]
        /\ UNCHANGED <<flowFiles, meters, readings, nextPk, clock, calls, proc>>

\* after the loop: the import summary
BatchSummary ==
    /\ batch.state = "loop"
    /\ batch.pos > Len(batch.files)
    /\ batch' = [batch EXCEPT !.state = "done", !.summary = TRUE]
    /\ UNCHANGED <<flowFiles, meters, readings, nextPk, clock, calls, proc>>

\* one run of the import_d0010 command on an empty store
NextBatch ==
    \/ \E files \in BatchRuns : CommandHandle(files)
    \/ BatchNextFile
    \/ BatchOutcome
    \/ BatchSummary
    \/ CreateFlowFile(1)
    \/ ParseStep(1)
    \/ Get(1)
    \/ Insert(1)
    \/ Finish(1)
    \/ FailSave(1)
    \/ Raise(1)

SpecBatch == Init /\ [][NextBatch]_vars

\* the context files, imported one after the other
NextCtx ==
    \/ \E path \in CtxInputs : SeqCall(1, path)
    \/ CreateFlowFile(1)
    \/ ParseStep(1)
    \/ Get(1)
    \/ Insert(1)
    \/ Finish(1)
    \/ FailSave(1)
    \/ Raise(1)
    \/ NewParser(1)

SpecCtx == Init /\ [][NextCtx]_vars

\* files whose format the detector has to decide, imported one after the other
NextFmt ==
    \/ \E path \in FmtInputs : SeqCall(1, path)
    \/ CreateFlowFile(1)
    \/ ParseStep(1)
    \/ Get(1)
    \/ Insert(1)
    \/ Finish(1)
    \/ FailSave(1)
    \/ Raise(1)
    \/ NewParser(1)

SpecFmt == Init /\ [][NextFmt]_vars

\* files of the generic formats, imported one after the other
NextGen ==
    \/ \E path \in GenInputs : SeqCall(1, path)
    \/ CreateFlowFile(1)
    \/ ParseStep(1)
    \/ Get(1)
    \/ Insert(1)
    \/ Finish(1)
    \/ FailSave(1)
    \/ Raise(1)
    \/ NewParser(1)

SpecGen == Init /\ [][NextGen]_vars

\* FlowFileDeleteView: the FlowFile is deleted, and with it (on_delete=CASCADE)
\* the Meters of the file, the Readings of the file and the Readings of the
\* Meters of the file
FlowFileDelete(pk) ==
    LET gone == {m \in meters : m.flow_file = pk}
    IN  /\ \A q \in Procs : proc[q].pc = "idle"
        /\ \E f \in flowFiles : f.pk = pk
        /\ flowFiles' = {f \in flowFiles : f.pk # pk}
        /\ meters' = meters \ gone
        /\ readings' = {r \in readings :
                           /\ r.flow_file # pk
                           /\ \A m \in gone : r.meter # m.pk}
        /\ UNCHANGED <<nextPk, clock, calls, proc, batch>>

\* imports, one after the other, and deletions of imported files
NextDel ==
    \/ \E path \in DelInputs : SeqCall(1, path)
    \/ CreateFlowFile(1)
    \/ ParseStep(1)
    \/ Get(1)
    \/ Insert(1)
    \/ Finish(1)
    \/ FailSave(1)
    \/ Raise(1)
    \/ NewParser(1)
    \/ \E f \in flowFiles : FlowFileDelete(f.pk)

SpecDel == Init /\ [][NextDel]_vars

\* the grammar parsers called directly, each call on a new parser object
NextDirect ==
    \/ \E path \in DirectInputs : \E grammar \in {"std", "fb"} :
          GrammarParseFileCall(1, path, grammar)
    \/ GrammarCreateFlowFile(1)
    \/ ParseStep(1)
    \/ Get(1)
    \/ Insert(1)
    \/ GrammarFinish(1)
    \/ FailSave(1)
    \/ Raise(1)

SpecDirect == Init /\ [][NextDirect]_vars

-----------------------------------------------------------------------------
(* Properties *)

Idle(p) == proc[p].pc = "idle"

\* a committed, successfully imported FlowFile holds content c
ImportedContent(c) ==
    \E f \in flowFiles : f.txn = 0 /\ f.status = "IMPORTED" /\ f.checksum = Digest[c]

\* C1 (idempotence): once a content has been imported successfully, every
\* later parse_file call on the same bytes, under whatever path or original
\* filename, ends with the duplicate-content error and leaves the Meter and
\* Reading rows as they were.
C1_SecondImportIsDuplicate ==
    [][\A p \in Procs : \A path \in Inputs :
          (ParseFileCall(p, path) /\ ImportedContent(path.content))
          => /\ proc'[p].pc = "idle"
             /\ proc'[p].outcome = "DuplicateContent"
             /\ meters' = meters
             /\ readings' = readings]_vars

\* the content of strict.uff was imported under one name and refused under another
C1_Witness ==
    \E p \in Procs :
        /\ Idle(p)
        /\ proc[p].outcome = "DuplicateContent"
        /\ proc[p].path.content = "strict1"
        /\ ImportedContent("strict1")
        /\ \A f \in flowFiles : f.filename # proc[p].filename
        /\ meters # {}
        /\ readings # {}

\* C2: a call that finds a stored FlowFile with the checksum of its file
\* fails with an error naming that row's filename, creates no FlowFile and
\* changes no row of the store.
C2_DuplicateChangesNothing ==
    [][\A p \in Procs : \A path \in Inputs :
          LET prior == Visible(p, {f \in flowFiles : f.checksum = Digest[path.content]})
          IN  (ParseFileCall(p, path) /\ prior # {})
              => /\ proc'[p].outcome = "DuplicateContent"
                 /\ \E f \in prior : proc'[p].errPrior = f.filename
                 /\ flowFiles' = flowFiles
                 /\ meters' = meters
                 /\ readings' = readings
                 /\ nextPk' = nextPk]_vars

\* tmpq1.uff, uploaded as upload.uff, was refused with the name strict.uff
C2_Witness ==
    \E p \in Procs :
        /\ Idle(p)
        /\ proc[p].outcome = "DuplicateContent"
        /\ proc[p].filename = "upload.uff"
        /\ proc[p].errPrior = "strict.uff"
        /\ Cardinality(flowFiles) = 1

ReadingKey(r) == <<r.meter, r.register_id, r.reading_date, r.reading_value>>

ReadingKeyUnique ==
    \A r1, r2 \in readings : ReadingKey(r1) = ReadingKey(r2) => r1 = r2

\* the duplicates_skipped counter parse_file returns, or would return now
DupCounter(me) ==
    IF me.pc = "idle" THEN me.ret.stats.duplicates_skipped
    ELSE StatsAfter(me).duplicates_skipped

\* the stored Readings holding the natural key of upsert op
StoredAs(op) ==
    {r \in readings : \E m \in meters :
        /\ m.serial_number = op.serial
        /\ r.meter = m.pk
        /\ r.register_id = op.register_id
        /\ r.reading_date = op.reading_date
        /\ r.reading_value = op.reading_value}

\* caller p ends the upsert of a reading its file holds, the key being stored
DuplicateReadingStep(p) ==
    /\ proc[p].pc \in {"get", "insert"}
    /\ Len(proc'[p].todo) < Len(proc[p].todo)
    /\ Head(proc[p].todo).kind = "reading"
    /\ Head(proc[p].todo).site # "previous"
    /\ StoredAs(Head(proc[p].todo)) # {}

\* C3: no two Reading rows share (meter, register_id, reading_date,
\* reading_value); the upsert of a file's reading whose key is stored adds
\* no row and counts one duplicate, and the count is kept up to the
\* statistics the import returns, so that they show at least 1.
C3_ReadingNaturalKey ==
    /\ []ReadingKeyUnique
    /\ [][\A p \in Procs :
            /\ DuplicateReadingStep(p)
               => /\ readings' = readings
                  /\ DupCounter(proc'[p]) = DupCounter(proc[p]) + 1
            /\ (proc[p].pc \in {"parse", "get", "insert"} /\ ~ReadFails(proc[p]))
               => DupCounter(proc'[p]) >= DupCounter(proc[p])]_vars

\* strict2.uff, imported after strict.uff, repeats its reading of 56311.0:
\* one duplicate counted, no row of the second import with that key
C3_Witness ==
    \E p \in Procs :
        /\ Idle(p)
        /\ proc[p].outcome = "ok"
        /\ proc[p].path.content = "strict2"
        /\ proc[p].ret.stats.duplicates_skipped >= 1
        /\ \E r \in readings : r.flow_file # proc[p].ret.pk /\ r.reading_value = 56311000
        /\ \A r \in readings : r.flow_file = proc[p].ret.pk => r.reading_value # 56311000

\* C4: no two Meter rows share a serial_number, whichever of the strict,
\* fallback and generic paths upserted them.
C4_MeterSerialUnique ==
    \A m1, m2 \in meters : m1.serial_number = m2.serial_number => m1 = m2

\* a strict, a fallback and a CSV file naming F75A00802 were all imported
C4_Witness ==
    /\ ImportedContent("strict1")
    /\ ImportedContent("fallback")
    /\ ImportedContent("csv1")
    /\ Cardinality({m \in meters : m.serial_number = "F75A00802"}) = 1

\* the file of caller p cannot be read to its end
Unreadable(p) ==
    LET c == Content[proc[p].path.content]
    IN  c.bad_at # 0 \/ (proc[p].format = "json" /\ ~c.json_ok)

\* C5: when two imports upsert the same Meter serial or Reading key at the
\* same time, the store never holds two such rows and no upsert raises: the
\* import whose insert is rejected fetches the row; an import fails only
\* for its own file (unreadable, or the same bytes as the other import's).
C5_ConcurrentUpserts ==
    /\ C4_MeterSerialUnique
    /\ ReadingKeyUnique
    /\ \A p \in Procs :
        /\ proc[p].last # "raised"
        /\ (Idle(p) /\ proc[p].outcome = "FileError") => Unreadable(p)
        /\ (Idle(p) /\ proc[p].outcome = "IntegrityError")
           => \E f \in flowFiles : f.checksum = proc[p].checksum /\ f.pk # proc[p].cff.pk

\* an insert was rejected for a key the other import committed; the row was fetched
C5_Witness ==
    \E p, q \in Procs :
        /\ p # q
        /\ proc[p].last = "refetched"
        /\ proc[p].pc # "idle"
        /\ proc[p].path.content # proc[q].path.content
        /\ \E m \in meters : m.flow_file = proc[q].cff.pk /\ m.txn = 0

\* status changes of FlowFile rows in one step
StatusSteps ==
    \A g \in flowFiles' :
        LET old == {f \in flowFiles : f.pk = g.pk}
        IN  IF old = {} THEN g.status = "PROCESSING"
            ELSE \A f \in old : f.status # g.status
                                => f.status = "PROCESSING" /\ g.status \in {"IMPORTED", "ERROR"}

\* the step by which the call of p returns or raises
CallEnds(p) == proc[p].pc # "idle" /\ proc'[p].pc = "idle"

\* C6: every FlowFile row parse_file creates starts in PROCESSING; its
\* status changes once, to IMPORTED or to ERROR, and never afterwards; no
\* call returns or raises with its row in PROCESSING.
C6_Lifecycle ==
    /\ [](\A f \in flowFiles :
            f.status = "PROCESSING"
            => \E p \in Procs : ~Idle(p) /\ proc[p].cff.pk = f.pk /\ f.txn = p)
    /\ [][StatusSteps]_vars
    /\ [][\A p \in Procs :
            CallEnds(p)
            => CASE proc'[p].outcome = "ok" ->
                      \E f \in flowFiles' : f.pk = proc'[p].ret.pk /\ f.status = "IMPORTED"
                 [] proc'[p].outcome = "FileError" ->
                      \E f \in flowFiles : f.pk = proc[p].cff.pk /\ f.status = "ERROR"
                 [] OTHER -> flowFiles' = flowFiles]_vars

\* a row in ERROR about to be raised with, beside a committed IMPORTED row
C6_Witness ==
    \E p \in Procs :
        /\ proc[p].pc = "raise"
        /\ \E f \in flowFiles : f.pk = proc[p].cff.pk /\ f.status = "ERROR"
        /\ \E f \in flowFiles : f.txn = 0 /\ f.status = "IMPORTED"

\* C7: after a successful import the FlowFile has status IMPORTED and its
\* record_count is the number of Meter rows plus the number of Reading rows
\* that import created.
C7_RecordCount ==
    \A p \in Procs :
        (Idle(p) /\ proc[p].outcome = "ok")
        => \E f \in flowFiles :
              /\ f.pk = proc[p].ret.pk
              /\ f.status = "IMPORTED"
              /\ f.record_count = Cardinality({m \in meters : m.flow_file = f.pk})
                                  + Cardinality({r \in readings : r.flow_file = f.pk})

\* C8: when a file-level error ends parse_file, the FlowFile row of that
\* import holds status ERROR.
C8_ErrorStatusKept ==
    \A p \in Procs :
        (Idle(p) /\ proc[p].outcome = "FileError")
        => \E f \in flowFiles : f.pk = proc[p].cff.pk /\ f.status = "ERROR"

\* the rows written for the import caller p is in, or made last
RowsOf(p, rows) == {r \in rows : r.flow_file = proc[p].cff.pk}

\* C9: the Meter and Reading rows of an import are committed together or
\* not at all: while the call runs none of them is committed, after a
\* file-level error none of them is in the store, and after a return all of
\* them are committed.
C9_AtomicImport ==
    \A p \in Procs :
        /\ proc[p].pc \in {"parse", "get", "insert", "fail", "raise"}
           => \A r \in RowsOf(p, meters) \cup RowsOf(p, readings) : r.txn = p
        /\ (Idle(p) /\ proc[p].outcome = "FileError")
           => RowsOf(p, meters) \cup RowsOf(p, readings) = {}
        /\ (Idle(p) /\ proc[p].outcome = "ok")
           => \A r \in RowsOf(p, meters) \cup RowsOf(p, readings) : r.txn = 0

\* broken.csv failed after a Meter and a Reading had been created for it
C9_Witness ==
    \E p \in Procs :
        /\ Idle(p)
        /\ proc[p].outcome = "FileError"
        /\ proc[p].stats.meters_created >= 1
        /\ proc[p].stats.readings_created >= 1
        /\ nextPk.meter > 1
        /\ meters = {}
        /\ readings = {}

\* the record types each grammar dispatches on
KnownTypes(parser) ==
    IF parser = "std" THEN {"ZHD", "026", "028", "029", "ZTR"}
    ELSE {"ZHV", "026", "028", "030", "ZPT"}

\* caller p is about to read a line whose record type its grammar does not know
AtUnknownLine(p) ==
    LET me == proc[p]
    IN  /\ me.pc = "parse"
        /\ me.parser \in {"std", "fb"}
        /\ ~ReadFails(me)
        /\ ~AtEnd(me)
        /\ Content[me.path.content].lines[me.idx][1] \notin KnownTypes(me.parser)

\* the content holds a line neither grammar knows
HasUnknownLine(c) ==
    \E i \in 1..Len(Content[c].lines) :
        Content[c].lines[i][1] \notin KnownTypes("std") \cup KnownTypes("fb")

\* C10: a line with an unrecognized record-type token changes neither the
\* import context nor the store nor the counters, the loop goes on with the
\* next line, and the import of a file holding such a line ends IMPORTED.
C10_UnknownRecordIgnored ==
    /\ [][\A p \in Procs :
            (AtUnknownLine(p) /\ ParseStep(p))
            => /\ proc'[p] = [proc[p] EXCEPT !.idx = @ + 1]
               /\ UNCHANGED <<flowFiles, meters, readings, nextPk, clock>>]_vars
    /\ [](\A p \in Procs :
            (Idle(p) /\ proc[p].outcome \in {"ok", "FileError"}
                     /\ HasUnknownLine(proc[p].path.content) /\ ~Unreadable(p))
            => /\ proc[p].outcome = "ok"
               /\ \E f \in flowFiles : f.pk = proc[p].ret.pk /\ f.status = "IMPORTED")

\* fallback.uff, with its INVALID line between 028 and 030, was imported:
\* one Meter and the Reading of the 030 line that follows the bad line
C10_Witness ==
    \E p \in Procs :
        /\ Idle(p)
        /\ proc[p].outcome = "ok"
        /\ proc[p].path.content = "fallback"
        /\ HasUnknownLine("fallback")
        /\ Cardinality(RowsOf(p, meters)) = 1
        /\ Cardinality(RowsOf(p, readings)) = 1
        /\ proc[p].ret.record_count = 2

\* the record-type token of the first line of a grammar file
FirstToken(c) == IF Content[c].lines = <<>> THEN "" ELSE Content[c].lines[1][1]

\* C11 (grammar selection): the lines of a grammar file that starts with
\* ZHD| are dispatched to the strict parser, those of a file that starts
\* with ZHV| to the fallback parser: a parser that has been handed a line
\* of the file is the one the first token selects.
C11_GrammarSelection ==
    \A p \in Procs :
        (proc[p].pc \in {"parse", "get", "insert"} /\ proc[p].format = "uff"
                                                   /\ proc[p].idx > 1)
        => /\ FirstToken(proc[p].path.content) = "ZHD" => proc[p].parser = "std"
           /\ FirstToken(proc[p].path.content) = "ZHV" => proc[p].parser = "fb"

KnownExts == {".uff", ".csv", ".json", ".xml", ".txt", ".pdf", ".xlsx", ".xls",
              ".docx", ".doc"}

\* a sniffing rule matches the first line of the content
SniffMatch(c) ==
    \/ FirstToken(c) \in {"ZHD", "ZHV"}
    \/ Content[c].sniff.comma
    \/ Content[c].sniff.lead \in {"{", "[", "<"}

\* C12 (unsupported format): parse_file on a file with an unknown extension
\* whose content matches no sniffing rule fails, the file is not imported.
C12_UnsupportedFormat ==
    \A p \in Procs :
        (Idle(p) /\ proc[p].outcome # "none"
                 /\ proc[p].path.ext \notin KnownExts
                 /\ ~SniffMatch(proc[p].path.content))
        => /\ proc[p].outcome = "FileError"
           /\ ~ImportedContent(proc[p].path.content)

\* the step that ends an upsert of caller p
UpsertEnds(p) ==
    /\ proc[p].pc \in {"get", "insert"}
    /\ Len(proc'[p].todo) < Len(proc[p].todo)

CounterSum(st) == st.meters_created + st.readings_created + st.duplicates_skipped

\* C13 (import statistics): every Meter or Reading upsert adds exactly one
\* to the counters of its import, to a created counter when it inserts a
\* row and to duplicates_skipped when it fetches one, so that the counters
\* sum to the number of upserts made.
C13_EveryUpsertCounted ==
    [][\A p \in Procs :
          UpsertEnds(p)
          => CounterSum(StatsAfter(proc'[p])) = CounterSum(StatsAfter(proc[p])) + 1]_vars

\* C14 (first writer wins): a Meter row keeps its serial, metering-point
\* id, energy type, creation timestamp and originating file for as long as
\* it exists, and a committed Meter row is never removed by an import,
\* whatever later files say about its serial.
C14_MeterNeverChanged ==
    [][\A m \in meters :
          /\ \A n \in meters' :
                n.pk = m.pk => /\ n.serial_number = m.serial_number
                               /\ n.mpan = m.mpan
                               /\ n.meter_type = m.meter_type
                               /\ n.created_date = m.created_date
                               /\ n.flow_file = m.flow_file
          /\ m.txn = 0 => m \in meters']_vars

\* data.csv created F75A00802 under point 1200023305967; data2.csv, naming
\* it under 1900001059816, was imported later and left the row as it was
C14_Witness ==
    /\ ImportedContent("csv1")
    /\ ImportedContent("csv2")
    /\ \E m \in meters : \E f, g \in flowFiles :
          /\ m.serial_number = "F75A00802"
          /\ m.mpan = "1200023305967"
          /\ f.checksum = Digest["csv1"] /\ m.flow_file = f.pk
          /\ g.checksum = Digest["csv2"] /\ g.pk > f.pk
          /\ \E r \in readings : r.flow_file = g.pk /\ r.meter = m.pk

\* caller p imported its file into a store that held no file: the call
\* returned and its FlowFile is the only one
ImportedAlone(p, c) ==
    /\ Idle(p)
    /\ proc[p].outcome = "ok"
    /\ proc[p].path.content = c
    /\ \A f \in flowFiles : f.pk = proc[p].ret.pk

FbReadingKeys(c) ==
    {<<Content[c].lines[i][3], Content[c].lines[i][4]>> :
        i \in {k \in 1..Len(Content[c].lines) :
                  /\ Content[c].lines[k][1] = "030"
                  /\ Len(Content[c].lines[k]) >= FbReadingMinFields
                  /\ IsStamp(Content[c].lines[k][3])
                  /\ IsFloat(Content[c].lines[k][4])}}

\* C16 (fallback scenario): a fallback file with header, metering point,
\* a meter line carrying only the serial, reading lines and trailer,
\* imported into an empty store: exactly one Meter, one Reading per
\* well-formed reading line with a distinct natural key, each under
\* register "00" and with a value of the file (no placeholder).
C16_FallbackScenario ==
    \A p \in Procs : \A c \in {"tfallback", "fallback2"} :
        ImportedAlone(p, c)
        => /\ Cardinality(meters) = 1
           /\ \A m \in meters : m.serial_number = "F75A00802"
           /\ Cardinality(readings) = Cardinality(FbReadingKeys(c))
           /\ \A r \in readings :
                 /\ r.register_id = "00"
                 /\ \E k \in FbReadingKeys(c) :
                       r.reading_date = StampLit[k[1]] /\ r.reading_value = FloatLit[k[2]]

\* three reading lines, one of them repeated: two Readings, one duplicate
C16_Witness ==
    \E p \in Procs :
        /\ ImportedAlone(p, "fallback2")
        /\ Cardinality(FbReadingKeys("fallback2")) = 2
        /\ Cardinality(readings) = 2
        /\ proc[p].ret.stats.duplicates_skipped = 1

\* every row of the content has a column of that name
HeaderNames(c, column) ==
    /\ Content[c].rows # <<>>
    /\ \A i \in 1..Len(Content[c].rows) : column \in DOMAIN Content[c].rows[i]

TwoMetersTwoReadings ==
    /\ Cardinality(meters) = 2
    /\ Cardinality(readings) = 2
    /\ \A m1, m2 \in meters : m1.serial_number = m2.serial_number => m1 = m2

\* C17 as stated: a delimited-text file whose header names point id (as
\* `point` or as `mpan`), serial, reading and date, with two rows of distinct
\* serials, imported into an empty store, gives two Meters and two Readings.
C17_CsvScenarioAsStated ==
    \A p \in Procs : \A c \in {"csvpoint", "csv1"} :
        (ImportedAlone(p, c) /\ (HeaderNames(c, "point") \/ HeaderNames(c, "mpan")))
        => TwoMetersTwoReadings

\* C17 (amended): the same for a header that names the point id `mpan`
\* (the test's header mpan,serial,reading,date).
C17_CsvScenario ==
    \A p \in Procs : \A c \in {"csvpoint", "csv1"} :
        (ImportedAlone(p, c) /\ HeaderNames(c, "mpan"))
        => TwoMetersTwoReadings

C17_Witness ==
    \E p \in Procs :
        /\ ImportedAlone(p, "csv1")
        /\ HeaderNames("csv1", "mpan")
        /\ Cardinality(meters) = 2
        /\ Cardinality(readings) = 2

\* the record count a trailer line declares
Declared == ("4" :> 4) @@ ("5" :> 5)

TrailerCount(c) == Declared[Content[c].lines[Len(Content[c].lines)][2]]

\* C18 (record count as the tests assert it): after the import of a
\* grammar sample the stored record_count is the count its trailer
\* declares, 5 for the strict sample and 4 for the fallback sample.
C18_RecordCountIsTrailerCount ==
    \A p \in Procs : \A c \in {"tstrict", "tfallback"} :
        (Idle(p) /\ proc[p].outcome = "ok" /\ proc[p].path.content = c)
        => \E f \in flowFiles :
              f.pk = proc[p].ret.pk /\ f.record_count = TrailerCount(c)

\* C19 (content is the idempotency key): a call on content no stored
\* FlowFile holds goes on to create its FlowFile, whatever filenames are
\* stored; a call is refused as duplicate only when a row holds its
\* checksum; no two FlowFile rows share a checksum.
C19_SameNameOtherContent ==
    /\ [][\A p \in Procs : \A path \in ScenInputs :
            (ParseFileCall(p, path)
             /\ \A f \in flowFiles : f.checksum # Digest[path.content])
            => proc'[p].pc = "create" /\ proc'[p].outcome # "DuplicateContent"]_vars
    /\ [](\A p \in Procs :
            (Idle(p) /\ proc[p].outcome = "DuplicateContent")
            => \E f \in flowFiles : f.checksum = proc[p].checksum)
    /\ [](\A f, g \in flowFiles : f.checksum = g.checksum => f = g)

\* the two samples were both imported as test.uff
C19_Witness ==
    \E f, g \in flowFiles :
        /\ f.filename = "test.uff" /\ g.filename = "test.uff"
        /\ f.checksum # g.checksum
        /\ f.status = "IMPORTED" /\ g.status = "IMPORTED"
        /\ f.txn = 0 /\ g.txn = 0

\* C20: when a run of the batch command has ended, every path it was handed
\* has exactly one reported outcome (imported, skipped or error)
RunEnded == batch.state \in {"done", "aborted"}

OutcomesAt(i) == {j \in DOMAIN batch.report : batch.report[j].at = i}

C20_OneOutcomePerFile ==
    RunEnded => \A i \in DOMAIN batch.files : Cardinality(OutcomesAt(i)) = 1

\* C21: the command reports a file as skipped exactly when its import failed
\* with the duplicate-content error, and then goes on; every other failure of
\* the file is reported as an error and ends the run
CallReturned == batch.state = "call" /\ batch'.state # "call"

LastReport == batch'.report[Len(batch'.report)].outcome

C21_BatchClassification ==
    [][CallReturned
       => /\ (LastReport = "skipped") <=> (proc[1].outcome = "DuplicateContent")
          /\ (LastReport = "skipped") => batch'.state = "loop"
          /\ proc[1].outcome \notin {"ok", "DuplicateContent"}
               => LastReport = "error" /\ batch'.state = "aborted"]_vars

\* the rows the running call of p has written
Written(p, rows) == {r \in rows : r.txn = p}

\* the call of p is past the creation of its FlowFile row
Parsing(p) == proc[p].pc \in {"parse", "get", "insert", "fail", "raise"}

\* C22: in every parse_file call the checksum is taken and the duplicate
\* check passed before the format is detected, before a line is read and
\* before a row is written; the FlowFile row is there before the first line
\* or item is dispatched.
C22_ImportOrder ==
    /\ [][\A p \in Procs :
            (proc[p].pc = "idle" /\ proc'[p].pc = "create")
            => /\ proc'[p].checksum = Digest[proc'[p].path.content]
               /\ Visible(p, FilesWithChecksum(proc'[p].checksum)) = {}]_vars
    /\ [](\A p \in Procs :
            proc[p].pc \in {"idle", "create"}
            => /\ Written(p, flowFiles) = {}
               /\ Written(p, meters) = {}
               /\ Written(p, readings) = {}
               /\ proc[p].idx = 0)
    /\ [](\A p \in Procs :
            Parsing(p)
            => \E f \in Written(p, flowFiles) :
                   f.pk = proc[p].cff.pk /\ f.checksum = proc[p].checksum)

\* a call has dispatched lines and written a Meter
C22_Witness ==
    \E p \in Procs : Parsing(p) /\ proc[p].idx > 2 /\ Written(p, meters) # {}

EndsAsDuplicate(p) ==
    /\ proc'[p].pc = "idle"
    /\ proc'[p] # proc[p]
    /\ proc'[p].outcome # "ok"
    /\ \E f \in flowFiles' : f.txn = 0 /\ f.checksum = proc'[p].checksum

Retry(p) ==
    /\ Idle(p)
    /\ proc[p].outcome = "FileError"
    /\ calls' = calls + 1
    /\ proc'[p].path = proc[p].path

\* C25: a parse_file call on a file whose last import failed with a
\* file-level error is not rejected as a duplicate: it creates a FlowFile
\* row again and parses the file from its first line with an empty context.
C25_RetryAfterFailure ==
    [][\A p \in Procs :
         /\ Retry(p) => proc'[p].pc = "create" /\ proc'[p].outcome = "none"
         /\ (proc[p].pc = "create" /\ proc'[p].pc = "parse")
            => /\ proc'[p].idx = 1
               /\ proc'[p].ctx = NoCtx
               /\ \E f \in Written(p, flowFiles') : f.checksum = proc[p].checksum]_vars

\* the second call, on broken.csv, is parsing; the first consumed a FlowFile
\* key and a Meter key and left no row: it was a failed import of broken.csv
C25_Witness ==
    /\ proc[1].pc = "parse"
    /\ proc[1].path.content = "csvbad"
    /\ proc[1].idx = 1
    /\ calls = 2
    /\ nextPk.flow = 3
    /\ nextPk.meter = 2
    /\ meters = {}

\* the well-formed files of each grammar
WellFormed(grammar) ==
    IF grammar = "std" THEN {"strict0", "strict1"} ELSE {"tfallback", "fallback2"}

\* C26: a grammar parser's own parse_file, called on a new well-formed file
\* of its grammar, returns: the call ends without an exception and the
\* FlowFile is stored with status IMPORTED and the count of the rows created.
C26_StandaloneParsers ==
    \A p \in Procs :
        (/\ Idle(p)
         /\ proc[p].direct
         /\ proc[p].outcome # "none"
         /\ proc[p].path.content \in WellFormed(proc[p].parser))
        => /\ proc[p].outcome = "ok"
           /\ \E f \in flowFiles :
                 /\ f.txn = 0
                 /\ f.checksum = proc[p].checksum
                 /\ f.status = "IMPORTED"

\* the line caller p is about to read
LineAt(p) == Content[proc[p].path.content].lines[proc[p].idx]

\* caller p is about to dispatch a line of record type `type` to `parser`
AtLine(p, parser, type) ==
    LET me == proc[p]
    IN  /\ me.pc = "parse"
        /\ me.parser = parser
        /\ ~ReadFails(me)
        /\ ~AtEnd(me)
        /\ LineAt(p)[1] = type

\* the step dispatches the line and makes no upsert: only the line counter
\* and, where `ctx` differs, the context change
Dispatched(p, ctx) ==
    /\ proc'[p] = [proc[p] EXCEPT !.idx = @ + 1, !.ctx = ctx]
    /\ UNCHANGED <<flowFiles, meters, readings, nextPk, clock>>

\* C27: a strict metering-point line (of at least 3 fields) whose id is not
\* 13 characters long leaves the context and the store as they are; one with
\* a 13-character id makes that id the current point and changes nothing
\* else: the current meter serial and register stay.
C27_StrictPointRecord ==
    [][\A p \in Procs :
         (AtLine(p, "std", "026") /\ Len(LineAt(p)) >= MpanMinFields /\ ParseStep(p))
         => LET id == LineAt(p)[2]
            IN  IF Len(id) = MpanLength
                THEN Dispatched(p, [proc[p].ctx EXCEPT !.current_mpan = id])
                ELSE Dispatched(p, proc[p].ctx)]_vars

\* the malformed point line of early.uff was dispatched with a meter and a
\* register remembered, which are still there
C27_Witness ==
    /\ proc[1].path.content = "ctxA"
    /\ proc[1].parser = "std"
    /\ proc[1].pc = "parse"
    /\ proc[1].idx = 8
    /\ Len(Content["ctxA"].lines[7][2]) # MpanLength
    /\ proc[1].ctx = [current_mpan |-> "1200023305967",
                      current_meter_serial |-> "F75A00802", current_register_id |-> "S"]

\* C28: a strict detail line dispatched while no metering point is set
\* creates no Meter and no Reading and leaves the current meter serial and
\* register as they are.
C28_DetailNeedsPoint ==
    [][\A p \in Procs :
         (AtLine(p, "std", "028") /\ Falsy(proc[p].ctx.current_mpan) /\ ParseStep(p))
         => Dispatched(p, proc[p].ctx)]_vars

\* the detail line that precedes every point line of early.uff was dispatched
C28_Witness ==
    /\ proc[1].path.content = "ctxA"
    /\ proc[1].parser = "std"
    /\ proc[1].pc = "parse"
    /\ proc[1].idx = 3
    /\ Content["ctxA"].lines[2][1] = "028"
    /\ proc[1].ctx = NoCtx
    /\ Written(1, meters) = {}

\* the step hands one Reading upsert, for `serial` and `register`, to the store
OneReading(p, serial, register) ==
    /\ Len(proc'[p].todo) = 1
    /\ proc'[p].todo[1].kind = "reading"
    /\ proc'[p].todo[1].serial = serial
    /\ proc'[p].todo[1].register_id = register

\* the register a reading line files under: the remembered one, "00" if none
Remembered(ctx) ==
    IF Falsy(ctx.current_register_id) THEN "00" ELSE ctx.current_register_id

\* a strict reading line (of at least 8 fields) dispatched with no current
\* meter makes no upsert; every other one makes exactly one Reading upsert
\* under the remembered serial and register
StrictAddendum(p, lines) ==
    (/\ AtLine(p, "std", "029")
     /\ Len(LineAt(p)) >= ReadingMinFields
     /\ LineAt(p) \in lines
     /\ ParseStep(p))
    => IF Falsy(proc[p].ctx.current_meter_serial)
       THEN Dispatched(p, proc[p].ctx)
       ELSE OneReading(p, proc[p].ctx.current_meter_serial, Remembered(proc[p].ctx))

\* the strict reading lines of the corpus, and those with a date and a value
\* float() accepts
ReadingLines == {RD1, RDNAN}

ValuedReadingLines == {l \in ReadingLines : Len(l) >= 5 /\ ~Falsy(l[3]) /\ IsFloat(l[5])}

\* C29 as stated: every strict reading line dispatched with a current meter
\* upserts exactly one Reading under the remembered serial and register.
C29_AddendumAsStated == [][\A p \in Procs : StrictAddendum(p, ReadingLines)]_vars

\* C29: a strict reading line dispatched before a detail line has set the
\* current meter creates no Reading; otherwise, if it carries a date and a
\* value float() accepts, it upserts exactly one Reading under the
\* remembered serial and register ("00" if that is empty).
C29_Addendum == [][\A p \in Procs : StrictAddendum(p, ValuedReadingLines)]_vars

\* early.uff: the reading line that precedes every detail line was dispatched
\* and made no upsert, a later one was handed to the store under register S
C29_Witness ==
    /\ proc[1].path.content = "ctxA"
    /\ proc[1].parser = "std"
    /\ proc[1].pc = "get"
    /\ proc[1].idx = 9
    /\ proc[1].todo[1].kind = "reading"
    /\ proc[1].todo[1].register_id = "S"
    /\ proc[1].todo[1].serial = "F75A00802"
    /\ Written(1, readings) # {}

\* line i of content c is a metering-point line the grammar accepts
ValidPoint(c, parser, i) ==
    LET l == Content[c].lines[i]
    IN  /\ l[1] = "026"
        /\ Len(l) >= 3
        /\ ~Falsy(l[2])
        /\ parser = "std" => Len(l[2]) = MpanLength

\* the meter serial a detail line names
SerialOf(parser, l) == IF parser = "std" THEN l[5] ELSE l[2]

\* line j of content c is a detail line the grammar accepts: long enough,
\* with a serial (strict: and a value), after some accepted point line
AcceptedDetail(c, parser, j) ==
    LET l == Content[c].lines[j]
    IN  /\ l[1] = "028"
        /\ IF parser = "std"
           THEN Len(l) >= DetailMinFields /\ ~Falsy(l[5]) /\ ~Falsy(l[11])
           ELSE Len(l) >= FbMeterMinFields /\ ~Falsy(l[2])
        /\ \E i \in 1..(j - 1) : ValidPoint(c, parser, i)

\* the last line before idx that is in `among`; 0 if none
LastBefore(idx, among) ==
    IF \E j \in among : j < idx
    THEN CHOOSE j \in among : j < idx /\ \A k \in among : k < idx => k <= j
    ELSE 0

\* the lines of c that are detail lines, accepted or not, or accepted point lines
ContextLines(c, parser) ==
    {j \in 1..Len(Content[c].lines) :
        Content[c].lines[j][1] = "028" \/ ValidPoint(c, parser, j)}

AcceptedDetails(c, parser) ==
    {j \in 1..Len(Content[c].lines) : AcceptedDetail(c, parser, j)}

\* caller p dispatches a reading line of its grammar
AtReadingLine(p) ==
    \/ AtLine(p, "std", "029") /\ ParseStep(p)
    \/ AtLine(p, "fb", "030") /\ ParseStep(p)

\* the reading line is long enough and carries a date and a numeric value
Valued(parser, l) ==
    IF parser = "std"
    THEN Len(l) >= ReadingMinFields /\ ~Falsy(l[3]) /\ IsFloat(l[5])
    ELSE Len(l) >= FbReadingMinFields /\ ~Falsy(l[3]) /\ IsFloat(l[4])

\* C30 as stated: a reading line makes an upsert only if the last detail or
\* point line before it is an accepted detail line, and then for the meter
\* that line names: never for the meter of an earlier detail line.
C30_NoStaleContextAsStated ==
    [][\A p \in Procs :
         (AtReadingLine(p) /\ proc'[p].todo # <<>>)
         => LET c == proc[p].path.content
                j == LastBefore(proc[p].idx, ContextLines(c, proc[p].parser))
            IN  /\ j \in AcceptedDetails(c, proc[p].parser)
                /\ proc'[p].todo[1].serial = SerialOf(proc[p].parser, Content[c].lines[j])]_vars

\* C30: in both grammars a reading line with a date and a numeric value is
\* attached to the meter named by the last detail line of the file that was
\* accepted, whatever came between: a skipped detail line and a new point
\* line leave that meter remembered; with no accepted detail line before it
\* the reading line makes no upsert.
C30_RememberedMeter ==
    [][\A p \in Procs :
         (AtReadingLine(p) /\ Valued(proc[p].parser, LineAt(p)))
         => LET c == proc[p].path.content
                j == LastBefore(proc[p].idx, AcceptedDetails(c, proc[p].parser))
            IN  IF j = 0 THEN Dispatched(p, proc[p].ctx)
                ELSE /\ Len(proc'[p].todo) = 1
                     /\ proc'[p].todo[1].kind = "reading"
                     /\ proc'[p].todo[1].serial = SerialOf(proc[p].parser, Content[c].lines[j])]_vars

\* twopoints.uff: the reading line that follows the second point line was
\* handed to the store for the meter of the first point
C30_Witness ==
    /\ proc[1].path.content = "ctxB"
    /\ proc[1].pc = "get"
    /\ proc[1].idx = 6
    /\ proc[1].ctx.current_mpan = "1900001059816"
    /\ proc[1].todo[1].kind = "reading"
    /\ proc[1].todo[1].serial = "F75A00802"
    /\ \E m \in meters : m.serial_number = "F75A00802" /\ m.mpan = "1200023305967"

\* the placeholder upserts the step hands to the store
Placeholders(p) ==
    {i \in DOMAIN proc'[p].todo : proc'[p].todo[i].site = "previous"}

\* a strict detail line the handler accepts: long enough, with serial and value
DetailAccepted(p) ==
    /\ AtLine(p, "std", "028")
    /\ Len(LineAt(p)) >= DetailMinFields
    /\ ~Falsy(LineAt(p)[5])
    /\ ~Falsy(LineAt(p)[11])
    /\ ~Falsy(proc[p].ctx.current_mpan)

\* C31: an accepted strict detail line whose previous date and time are
\* present and differ from its current date and time, in the date or in the
\* time, upserts exactly one placeholder Reading at the previous timestamp,
\* with value 0.0 and type Estimated; any other detail line upserts none.
C31_PreviousPlaceholder ==
    [][\A p \in Procs :
         (DetailAccepted(p) /\ ParseStep(p))
         => LET l == LineAt(p)
                distinct == /\ ~Falsy(l[7]) /\ ~Falsy(l[8])
                            /\ <<l[7], l[8]>> # <<l[9], l[10]>>
            IN  IF distinct
                THEN /\ Cardinality(Placeholders(p)) = 1
                     /\ \A i \in Placeholders(p) :
                          /\ proc'[p].todo[i].reading_date = Stamp(l[7], l[8])
                          /\ proc'[p].todo[i].reading_value = 0
                          /\ proc'[p].todo[i].reading_type = "E"
                ELSE Placeholders(p) = {}]_vars

\* the record types of the strict grammar and the fields each one needs
StrictMinFields ==
    [ZHD |-> ZhdMinFields] @@ ("026" :> MpanMinFields) @@ ("028" :> DetailMinFields) @@
    ("029" :> ReadingMinFields) @@ [ZTR |-> ZtrMinFields]

\* C32: a strict line of any record type (header, metering point, detail,
\* addendum, trailer) with fewer fields than the type needs is skipped as a
\* whole: the FlowFile fields, the context, the counters, the store and the
\* clock stay as they are, and the parser goes on with the next line.
C32_ShortLineSkipped ==
    [][\A p \in Procs : \A type \in DOMAIN StrictMinFields :
         (/\ AtLine(p, "std", type)
          /\ Len(LineAt(p)) < StrictMinFields[type]
          /\ ParseStep(p))
         => /\ Dispatched(p, proc[p].ctx)
            /\ proc'[p].pc = "parse"]_vars

\* short.uff was imported: its five short lines left the header of the first
\* line and the metering point of the second in place, and the detail line
\* after them gave the Meter under that point and its Readings
C32_Witness ==
    /\ ImportedAlone(1, "ctxG")
    /\ \A type \in DOMAIN StrictMinFields :
          \E i \in 3..7 : /\ Content["ctxG"].lines[i][1] = type
                          /\ Len(Content["ctxG"].lines[i]) < StrictMinFields[type]
    /\ \E f \in flowFiles :
          /\ f.pk = proc[1].ret.pk
          /\ f.status = "IMPORTED"
          /\ f.sequence_number = ZHD1[2]
          /\ \E m \in meters : /\ m.flow_file = f.pk
                               /\ m.serial_number = DET1[5]
                               /\ m.mpan = MPAN1[2]
          /\ \E r \in readings : r.flow_file = f.pk /\ r.reading_value = FloatLit[DET1[11]]

\* the format tag of each known extension
ExtTag ==
    (".uff" :> "uff") @@ (".csv" :> "csv") @@ (".json" :> "json") @@ (".xml" :> "xml") @@
    (".txt" :> "txt") @@ (".pdf" :> "pdf") @@ (".xlsx" :> "excel") @@ (".xls" :> "excel") @@
    (".docx" :> "word") @@ (".doc" :> "word")

\* the call of p passes the duplicate check: the format is detected
Detects(p) == proc[p].pc = "idle" /\ proc'[p].pc = "create"

\* C33: for a file whose name ends in a known extension the detector returns
\* the tag of that extension whatever the content is; the FlowFile row is
\* created with that tag, and the tag of a stored FlowFile never changes.
C33_ExtensionFirst ==
    [][/\ \A p \in Procs :
            (Detects(p) /\ proc'[p].path.ext \in DOMAIN ExtTag)
            => proc'[p].format = ExtTag[proc'[p].path.ext]
       /\ \A p \in Procs : \A f \in flowFiles' :
            (proc[p].pc = "create" /\ proc'[p].pc = "parse" /\ f.pk = proc'[p].cff.pk)
            => f.file_type = Upper(proc[p].format)
       /\ \A f \in flowFiles : \A g \in flowFiles' :
            g.pk = f.pk => g.file_type = f.file_type]_vars

\* rows.txt, whose first line holds commas, and header.json and scan.pdf,
\* whose first line is a strict header, got the tags of their extensions;
\* rows.txt is stored, imported, with the tag it was created with
C33_Witness ==
    /\ Idle(1)
    /\ proc[1].outcome = "ok"
    /\ proc[1].path.name = "rows.txt"
    /\ Content[proc[1].path.content].sniff.comma
    /\ \E f \in flowFiles : /\ f.pk = proc[1].ret.pk
                            /\ f.txn = 0
                            /\ f.status = "IMPORTED"
                            /\ f.file_type = "TXT"

\* the sniffing table, read on the first non-empty line of content c
SniffTable(c) ==
    LET sn == Content[c].sniff
    IN  IF FirstToken(c) \in {"ZHD", "ZHV"} THEN "uff"
        ELSE IF sn.comma /\ sn.lead \notin {"{", "["} THEN "csv"
        ELSE IF sn.lead \in {"{", "["} THEN "json"
        ELSE IF sn.lead = "<" THEN "xml"
        ELSE "txt"

\* C34: for a file without a known extension the detector decides on the
\* first non-empty line, in this order: a grammar header token gives the
\* grammar format; a comma in a line that does not start with { or [ gives
\* delimited text; a line starting with { or [ gives object notation (also
\* when it holds a comma); a line starting with < gives markup; anything
\* else gives free text. Blank lines before that line change nothing.
C34_SniffTable ==
    [][\A p \in Procs :
         (Detects(p) /\ proc'[p].path.ext \notin DOMAIN ExtTag)
         => proc'[p].format = SniffTable(proc'[p].path.content)]_vars

\* the spellings of the field names of a generic item, in any case
PointKeys == {"mpan", "MPAN", "Mpan", "meter_point"}
SerialKeys == {"serial", "SERIAL", "Serial", "meter_serial"}
ValueKeys == {"reading", "READING", "Reading", "value"}

\* no key of `keys` has a value in the dictionary
Lacks(dict, keys) == \A k \in keys : Falsy(DictGet(dict, k))

\* caller p is about to handle an item of a generic format
AtItem(p) ==
    /\ proc[p].pc = "parse"
    /\ proc[p].parser \in {"csv", "json", "xml"}
    /\ ~ReadFails(proc[p])
    /\ ~AtEnd(proc[p])

ItemAt(p) == Items(Content[proc[p].path.content], proc[p].parser)[proc[p].idx]

\* the item lacks the point id, the serial or the value
Incomplete(p) ==
    LET item == ItemAt(p)
    IN  IF proc[p].parser = "xml"
        THEN \/ Lacks(item.child, {"mpan"}) /\ Lacks(item.attr, {"mpan"})
             \/ Lacks(item.child, {"serial"}) /\ Lacks(item.attr, {"serial"})
             \/ Lacks(item.child, {"value"}) /\ Lacks(item.attr, {"value"})
        ELSE Lacks(item, PointKeys) \/ Lacks(item, SerialKeys) \/ Lacks(item, ValueKeys)

\* files of generic items, some of them incomplete, all of them readable
GapFiles == {"gcsv", "gjson", "gxml"}

\* C35: a CSV row, JSON item or XML reading element that lacks the point id,
\* the serial or the value creates no Meter and no Reading and raises
\* nothing: the parser goes on with the next item, and the import of a file
\* holding such items ends in status Imported.
C35_IncompleteItemDropped ==
    /\ [][\A p \in Procs :
            (AtItem(p) /\ Incomplete(p) /\ ParseStep(p))
            => /\ Dispatched(p, proc[p].ctx)
               /\ proc'[p].pc = "parse"]_vars
    /\ [](\A p \in Procs :
            (Idle(p) /\ proc[p].path.content \in GapFiles
                     /\ proc[p].outcome \notin {"none", "DuplicateContent"})
            => /\ proc[p].outcome = "ok"
               /\ \E f \in flowFiles : f.pk = proc[p].ret.pk /\ f.status = "IMPORTED")

\* readings.csv, readings.json and readings.xml are imported, each with an
\* item that lacks a field between two complete ones: the two Meters and the
\* two Readings of the complete items are there, nothing else
C35_Witness ==
    /\ \A c \in GapFiles :
          /\ ImportedContent(c)
          /\ \E i \in 2..(Len(Content[c].rows) - 1) :
                LET item == Content[c].rows[i]
                IN  IF c = "gxml" THEN Lacks(item.child, {"serial"})
                    ELSE Lacks(item, PointKeys) \/ Lacks(item, SerialKeys)
                                                \/ Lacks(item, ValueKeys)
    /\ {m.serial_number : m \in meters} = {ROW1.serial, ROW2.serial}
    /\ Cardinality(readings) = 2

\* the value the item holds under one of the spellings of `keys`
Under(dict, keys) ==
    LET k == CHOOSE k \in keys : ~Falsy(DictGet(dict, k)) IN dict[k]

\* C36: the field names of a CSV row or JSON item are looked up without
\* regard to case: an item that holds point id, serial and value under any
\* spelling of the accepted names (mpan, MPAN, Mpan, ...) is taken, and its
\* Meter is upserted with that serial and point id.
C36_AliasAnyCase ==
    [][\A p \in Procs :
         (AtItem(p) /\ proc[p].parser \in {"csv", "json"} /\ ~Incomplete(p) /\ ParseStep(p))
         => /\ proc'[p].todo # <<>>
            /\ proc'[p].todo[1].kind = "meter"
            /\ proc'[p].todo[1].serial = Under(ItemAt(p), SerialKeys)
            /\ proc'[p].todo[1].mpan = Under(ItemAt(p), PointKeys)]_vars

\* the canonical fields of the generic item caller p is at, under the names
\* the extractors look up
Canonical(p) ==
    LET item == ItemAt(p)
    IN  IF proc[p].parser = "xml"
        THEN [mpan |-> DictGet(item.child, "mpan"), serial |-> DictGet(item.child, "serial"),
              value |-> DictGet(item.child, "value"), date |-> DictGet(item.child, "date")]
        ELSE [mpan |-> Or3(DictGet(item, "mpan"), DictGet(item, "MPAN"),
                           DictGet(item, "meter_point")),
              serial |-> Or3(DictGet(item, "serial"), DictGet(item, "SERIAL"),
                             DictGet(item, "meter_serial")),
              value |-> Or3(DictGet(item, "reading"), DictGet(item, "READING"),
                            DictGet(item, "value")),
              date |-> Or3(DictGet(item, "date"), DictGet(item, "DATE"),
                           DictGet(item, "reading_date"))]

\* C37: a generic item that has point id, serial and a numeric value gets
\* its Reading whether or not its date parses: at the timestamp of the first
\* accepted format the date matches, and at the current time when the date
\* is absent or matches no format; such an item is never dropped.
C37_GenericDateFallback ==
    [][\A p \in Procs :
         (/\ AtItem(p)
          /\ ~Falsy(Canonical(p).mpan) /\ ~Falsy(Canonical(p).serial)
          /\ ~Falsy(Canonical(p).value) /\ IsFloat(Canonical(p).value)
          /\ ParseStep(p))
         => LET d == Canonical(p).date
                at == IF ~Falsy(d) /\ GenericDate(d) # 0 THEN GenericDate(d)
                      ELSE Now(clock)
            IN  \E i \in DOMAIN proc'[p].todo :
                   /\ proc'[p].todo[i].kind = "reading"
                   /\ proc'[p].todo[i].serial = Canonical(p).serial
                   /\ proc'[p].todo[i].reading_value = FloatLit[Canonical(p).value]
                   /\ proc'[p].todo[i].reading_date = at]_vars

\* caller p is about to handle a line of free text
AtTextLine(p) ==
    /\ proc[p].pc = "parse"
    /\ proc[p].parser \in {"txt", "excel", "word"}
    /\ ~ReadFails(proc[p])
    /\ ~AtEnd(proc[p])

\* the splits of a free-text line, in the order the delimiters are tried
Splits(line) == <<line.pipe, line.tab, line.comma, line.space>>

\* the first split of at least three parts; <<>> when there is none
FirstSplit(line) ==
    IF \E i \in 1..4 : Len(Splits(line)[i]) >= TxtMinParts
    THEN LET i == CHOOSE k \in 1..4 :
                     /\ Len(Splits(line)[k]) >= TxtMinParts
                     /\ \A j \in 1..(k - 1) : Len(Splits(line)[j]) < TxtMinParts
         IN  Splits(line)[i]
    ELSE <<>>

\* C38: a free-text line is split on the first of pipe, tab, comma and
\* whitespace that gives at least 3 fields, chosen for that line alone: a
\* line with such a split whose first three fields are not empty has its
\* Meter upserted under the first two (point id, serial), also when a
\* delimiter tried earlier gives fewer than 3 fields.
C38_DelimiterChoice ==
    [][\A p \in Procs :
         (AtTextLine(p) /\ ParseStep(p))
         => LET parts == FirstSplit(ItemAt(p))
            IN  (/\ parts # <<>>
                 /\ ~Falsy(parts[1]) /\ ~Falsy(parts[2]) /\ ~Falsy(parts[3]))
                => /\ proc'[p].todo # <<>>
                   /\ proc'[p].todo[1].kind = "meter"
                   /\ proc'[p].todo[1].mpan = parts[1]
                   /\ proc'[p].todo[1].serial = parts[2]]_vars

\* the header tokens of the text of content c
HeaderTokens(c) ==
    {Content[c].lines[i][1] : i \in 1..Len(Content[c].lines)} \cap {"ZHD", "ZHV"}

\* content c holds text
HasText(c) == Content[c].lines # <<>> \/ Content[c].rows # <<>> \/ Content[c].text # <<>>

\* C39: the text of an extracted-document (PDF) file goes to the grammar
\* parser that its header token selects, and to the free-text path when it
\* holds no header token; the 'no content' Meter and Reading are made only
\* when the file holds no text at all.
C39_DocumentRouting ==
    [][\A p \in Procs :
         (proc[p].pc = "create" /\ proc[p].format = "pdf" /\ proc'[p].pc = "parse")
         => LET c == proc[p].path.content
            IN  proc'[p].parser =
                   IF "ZHD" \in HeaderTokens(c) THEN "std"
                   ELSE IF "ZHV" \in HeaderTokens(c) THEN "fb"
                   ELSE IF HasText(c) THEN "txt"
                   ELSE "sentinel"]_vars

\* every Reading refers to a Meter and to a FlowFile of the store
ReadingsRefer(fs, ms, rs) ==
    \A r \in rs : /\ \E m \in ms : m.pk = r.meter
                  /\ \E f \in fs : f.pk = r.flow_file

\* C40: the deletion of a FlowFile leaves every remaining Reading with an
\* existing Meter and an existing FlowFile, and removes only Meters and
\* Readings whose originating file is the deleted one: no Reading imported
\* from another file is removed.
C40_DeleteOwnRowsOnly ==
    [][\A pk \in 1..MaxCalls :
         FlowFileDelete(pk)
         => /\ ReadingsRefer(flowFiles', meters', readings')
            /\ \A m \in meters \ meters' : m.flow_file = pk
            /\ \A r \in readings \ readings' : r.flow_file = pk]_vars

====
